---- MODULE Spec2Model ----
(***************************************************************************)
(* Model of the carousel studio's slide rendering pipeline                 *)
(* (src/js/canvas.js, lines 1-190), of the UI state it reads               *)
(* (src/js/ui.js), of the App handlers (src/unnamed/part_002, part_003),   *)
(* of the carousel (src/js/carousel.js) and of the AI requests             *)
(* (src/js/ai-generator.js).                                               *)
(*                                                                         *)
(* Strings of the program are sequences of one-character strings, so that  *)
(* split, trim and the template literals of getWrappedLines are computed   *)
(* and not assumed.  Canvas coordinates are exact rationals: a rectangle   *)
(* is a record of numerators over one common denominator den.  IEEE-754    *)
(* rounding of the divisions is not modelled.                              *)
(*                                                                         *)
(* The specifications share the variables:                                 *)
(*   Spec      the App: generate requests, batches, image loads            *)
(*   SpecEdit  the App with the editor's handlers running during a batch   *)
(*   SpecApi   one direct call of CanvasModule.generateSlide               *)
(*   SpecWrap  getWrappedLines applied to a text and a maxWidth            *)
(*   SpecGeom  drawLogo and drawImageBackground applied to an image        *)
(*   SpecText  drawText applied to a text and a font size                  *)
(*   SpecCarousel  the carousel: navigation, gestures, animation timers    *)
(*   SpecAi    the AI text and image requests and the image picker         *)
(*   SpecRsi   the slide-count control and renderSlideInputs' loops        *)
(*   SpecLive  the generate button under fairness of loads and promises    *)
(***************************************************************************)
EXTENDS Integers, Sequences, FiniteSets, TLC

VARIABLES
    currentSlideData,   \* ui.js: the slide list edited in the UI
    logoSettings,       \* ui.js: the logo settings edited in the UI
    controls,           \* ui.js: the values of the global settings controls
    edits,              \* number of UI edits made so far
    state,              \* App: [generatedImages, isGenerating]
    calls,              \* one record per call of handleGenerateCarousel
    wText,              \* getWrappedLines: the text argument
    wMaxWidth,          \* getWrappedLines: the maxWidth argument
    wLines,             \* getWrappedLines: the returned lines
    wDone,              \* getWrappedLines has returned
    gImg,               \* the decoded image handed to drawLogo / drawImageBackground
    gOptions,           \* drawLogo: the options argument
    gLogoRect,          \* drawLogo: the rectangle passed to ctx.drawImage
    gBgRect,            \* drawImageBackground: the rectangle passed to ctx.drawImage
    dt,                 \* drawText: its arguments and the fillText calls it made
    car,                \* CarouselModule: state, touch, the track and its timers
    ai,                 \* AIGeneratorModule, the App's picker state and the picker modal
    rsi                 \* renderSlideInputs: the count it read and where its loops stand

vars == <<currentSlideData, logoSettings, controls, edits, state, calls,
          wText, wMaxWidth, wLines, wDone, gImg, gOptions, gLogoRect, gBgRect,
          dt, car, ai, rsi>>

uiVars == <<currentSlideData, logoSettings, controls, edits>>
appVars == <<uiVars, state, calls>>
wrapVars == <<wText, wMaxWidth, wLines, wDone>>
geomVars == <<gImg, gOptions, gLogoRect, gBgRect>>
extVars == <<dt, car, ai, rsi>>

-----------------------------------------------------------------------------
(* Program constants (canvas.js 6-9) *)

CANVAS_WIDTH == 1080
CANVAS_HEIGHT == 1350
PADDING == 80
LOGO_PADDING == 40

(* Bounds of the model *)

MaxTextLen == 4      \* longest text handed to getWrappedLines
MaxWidth == 8        \* largest maxWidth handed to getWrappedLines
MaxDim == 6          \* largest image width / height handed to the geometry
MaxSlides == 2       \* longest slide list in the UI
MaxRequests == 2     \* clicks on the generate button
MaxEdits == 1        \* UI edits made around one batch
MaxTotal == 3        \* most slides handed to the carousel
MaxTimers == 2       \* most animation timers pending at once
MaxAiSlides == 2     \* slides that have a "Generate with AI" button
MaxAiCalls == 3      \* AI text and image requests made in one run

-----------------------------------------------------------------------------
(* JavaScript values *)

JsNull == "null"

\* Destructuring with a default: the default applies when the property is
\* undefined, i.e. when the record has no such field.
Get(obj, field, default) == IF field \in DOMAIN obj THEN obj[field] ELSE default

-----------------------------------------------------------------------------
(* Text layout: getWrappedLines (canvas.js 50-65) *)

Chars == {"a", "W", " "}

RECURSIVE SeqsUpTo(_, _)
SeqsUpTo(S, n) ==
    IF n = 0 THEN {<<>>}
    ELSE LET shorter == SeqsUpTo(S, n - 1)
         IN shorter \cup {Append(s, c) : s \in {t \in shorter : Len(t) = n - 1}, c \in S}

\* Advance width of one glyph, in units of fontSize / 4.
Advance(c) == CASE c = " " -> 1 [] c = "a" -> 2 [] OTHER -> 4

RECURSIVE SumAdvance(_)
SumAdvance(s) == IF s = <<>> THEN 0 ELSE Advance(Head(s)) + SumAdvance(Tail(s))

\* ctx.measureText(s).width under ctx.font: glyph advances add up and scale
\* with the font size.
measureText(ctx, s) == ctx.fontSize * SumAdvance(s)

\* String.prototype.split(' '): the pieces between single spaces, empty
\* pieces included; ''.split(' ') is [''].
RECURSIVE SplitFrom(_, _, _)
SplitFrom(text, i, cur) ==
    IF i > Len(text) THEN <<cur>>
    ELSE IF text[i] = " " THEN <<cur>> \o SplitFrom(text, i + 1, <<>>)
    ELSE SplitFrom(text, i + 1, Append(cur, text[i]))

split(text) == SplitFrom(text, 1, <<>>)

\* String.prototype.trim()
RECURSIVE TrimLeft(_)
TrimLeft(s) == IF s # <<>> /\ Head(s) = " " THEN TrimLeft(Tail(s)) ELSE s

RECURSIVE TrimRight(_)
TrimRight(s) ==
    IF s # <<>> /\ s[Len(s)] = " " THEN TrimRight(SubSeq(s, 1, Len(s) - 1)) ELSE s

trim(s) == TrimRight(TrimLeft(s))

\* currentLine ? `${currentLine} ${word}` : word
TestLine(currentLine, word) ==
    IF currentLine # <<>> THEN currentLine \o <<" ">> \o word ELSE word

MustBreak_Never(ctx, testLine, currentLine, maxWidth) == FALSE

MustBreak_Eager(ctx, testLine, currentLine, maxWidth) == currentLine # <<>>

MustBreak_Unguarded(ctx, testLine, currentLine, maxWidth) ==
    measureText(ctx, testLine) > maxWidth

MustBreak_AtLimit(ctx, testLine, currentLine, maxWidth) ==
    measureText(ctx, testLine) >= maxWidth /\ currentLine # <<>>

\* ctx.measureText(testLine).width > maxWidth && currentLine
MustBreak(ctx, testLine, currentLine, maxWidth) ==
    measureText(ctx, testLine) > maxWidth /\ currentLine # <<>>

\* The for loop: <<lines, currentLine>> after the words from position i on.
RECURSIVE WrapWords(_, _, _, _, _, _)
WrapWords(ctx, words, i, lines, currentLine, maxWidth) ==
    IF i > Len(words) THEN <<lines, currentLine>>
    ELSE LET word == words[i]
             testLine == TestLine(currentLine, word)
         IN IF MustBreak(ctx, testLine, currentLine, maxWidth)
            THEN WrapWords(ctx, words, i + 1, Append(lines, currentLine), word, maxWidth)
            ELSE WrapWords(ctx, words, i + 1, lines, testLine, maxWidth)

LinesOrEmpty_NoFallback(lines) == lines

\* return lines.length ? lines : ['']
LinesOrEmpty(lines) == IF Len(lines) # 0 THEN lines ELSE << <<>> >>

getWrappedLines_NoFinalPush(ctx, text, maxWidth) ==
    LinesOrEmpty(WrapWords(ctx, split(text), 1, <<>>, <<>>, maxWidth)[1])

\* words = text.split(' '), the loop, then if (currentLine) lines.push(currentLine)
getWrappedLines(ctx, text, maxWidth) ==
    LET words == split(text)
        acc == WrapWords(ctx, words, 1, <<>>, <<>>, maxWidth)
        lines == IF acc[2] # <<>> THEN Append(acc[1], acc[2]) ELSE acc[1]
    IN LinesOrEmpty(lines)

-----------------------------------------------------------------------------
(* Geometry: drawImageBackground (canvas.js 32-48), drawLogo (87-126) *)

\* A rectangle x/den, y/den, w/den, h/den.
Rect(x, y, w, h, den) == [x |-> x, y |-> y, w |-> w, h |-> h, den |-> den]

WiderThanCanvas_Flipped(img) == img.width * CANVAS_HEIGHT < CANVAS_WIDTH * img.height

\* imgRatio > canvasRatio, i.e. width/height > 1080/1350, for positive sizes
WiderThanCanvas(img) == img.width * CANVAS_HEIGHT > CANVAS_WIDTH * img.height

\* The rectangle handed to ctx.drawImage(img, drawX, drawY, drawWidth, drawHeight)
drawImageBackground(img) ==
    IF WiderThanCanvas(img)
    THEN \* drawHeight = 1350, drawWidth = width * (1350 / height),
         \* drawX = (1080 - drawWidth) / 2, drawY = 0; den = 2 * height
         Rect(CANVAS_WIDTH * img.height - img.width * CANVAS_HEIGHT,
              0,
              2 * img.width * CANVAS_HEIGHT,
              2 * img.height * CANVAS_HEIGHT,
              2 * img.height)
    ELSE \* drawWidth = 1080, drawHeight = height * (1080 / width),
         \* drawX = 0, drawY = (1350 - drawHeight) / 2; den = 2 * width
         Rect(0,
              CANVAS_HEIGHT * img.width - img.height * CANVAS_WIDTH,
              2 * img.width * CANVAS_WIDTH,
              2 * img.height * CANVAS_WIDTH,
              2 * img.width)

LogoSize_WidthAlways(logoImg, size) ==
    <<size * logoImg.width, size * logoImg.height, logoImg.width>>

\* logoWidth and logoHeight over a common denominator: <<w, h, den>>
LogoSize(logoImg, size) ==
    IF logoImg.width >= logoImg.height         \* aspectRatio >= 1
    THEN \* logoWidth = size, logoHeight = size / aspectRatio; den = width
         <<size * logoImg.width, size * logoImg.height, logoImg.width>>
    ELSE \* logoHeight = size, logoWidth = size * aspectRatio; den = height
         <<size * logoImg.width, size * logoImg.height, logoImg.height>>

LogoY_TopDefault(position, logoHeight, den) ==
    IF position \in {"bottom-left", "bottom-right"}
    THEN CANVAS_HEIGHT * den - logoHeight - LOGO_PADDING * den
    ELSE LOGO_PADDING * den

LogoX_NoWidth(position, logoWidth, den) ==
    IF position \in {"top-right", "bottom-right"}
    THEN (CANVAS_WIDTH - LOGO_PADDING) * den
    ELSE LOGO_PADDING * den

\* x of the switch (position)
LogoX(position, logoWidth, den) ==
    IF position \in {"top-right", "bottom-right"}
    THEN CANVAS_WIDTH * den - logoWidth - LOGO_PADDING * den
    ELSE LOGO_PADDING * den

\* y of the switch (position); the default case is bottom-left's
LogoY(position, logoHeight, den) ==
    IF position \in {"top-left", "top-right"}
    THEN LOGO_PADDING * den
    ELSE CANVAS_HEIGHT * den - logoHeight - LOGO_PADDING * den

\* The rectangle handed to ctx.drawImage(logoImg, x, y, logoWidth, logoHeight)
drawLogo(logoImg, options) ==
    LET position == Get(options, "position", "bottom-left")
        size == Get(options, "size", 80)
        dims == LogoSize(logoImg, size)
    IN Rect(LogoX(position, dims[1], dims[3]),
            LogoY(position, dims[2], dims[3]),
            dims[1], dims[2], dims[3])

-----------------------------------------------------------------------------
(* Text drawing: drawText (canvas.js 67-85) *)

\* x by alignment (line 78)
TextX(align) ==
    IF align = "left" THEN PADDING
    ELSE IF align = "right" THEN CANVAS_WIDTH - PADDING
    ELSE CANVAS_WIDTH \div 2

\* lineHeight = fontSize * 1.3, as a numerator over 10 (line 75)
LineHeight(fontSize) == 13 * fontSize

StartY_NoHalfLine(n, fontSize) == 10 * CANVAS_HEIGHT - n * LineHeight(fontSize)

\* startY = (CANVAS_HEIGHT - totalHeight) / 2 + (lineHeight / 2) for n lines,
\* as a numerator over 20 (lines 76-77)
StartY(n, fontSize) ==
    (10 * CANVAS_HEIGHT - n * LineHeight(fontSize)) + LineHeight(fontSize)

\* The y of each fillText call, startY + (i * lineHeight) for i = 0..n-1, as
\* numerators over 20 (line 83)
TextYs(n, fontSize) ==
    [j \in 1..n |-> StartY(n, fontSize) + (j - 1) * 2 * LineHeight(fontSize)]

\* The lines drawText hands to ctx.fillText, in order.
TextLines(text, options) ==
    getWrappedLines([fontSize |-> Get(options, "fontSize", 64)], text,
                    CANVAS_WIDTH - (PADDING * 2))

-----------------------------------------------------------------------------
(* One call of generateSlide (canvas.js 128-164) *)

\* The shadow colour of a new 2d context, which is also what
\* ctx.shadowColor = 'transparent' sets: transparent black.
Transparent == "rgba(0, 0, 0, 0)"

\* A fresh canvas: nothing painted yet.  ops lists the drawing stages in the
\* order they were performed; shadowColor is the context's current shadow
\* colour, textShadow and logoShadow the one in force when the text and the
\* logo were drawn.
createCanvas ==
    [bg |-> "none", bgImage |-> JsNull, bgRect |-> <<>>, scrim |-> FALSE,
     lines |-> <<>>, textX |-> 0, logo |-> <<>>, ops |-> <<>>,
     shadowColor |-> Transparent, textShadow |-> JsNull, logoShadow |-> JsNull]

\* loadImage resolves with the decoded image of src (canvas.js 18-25).
DecodedImage(src) ==
    IF src = "logo1" THEN [width |-> 2, height |-> 1] ELSE [width |-> 3, height |-> 2]

\* The frame of a generateSlide call: pc is where the call stands
\* ("bgload" / "logoload": suspended on await loadImage; "returned";
\* "threw"), ctx is what canvas.getContext('2d') gave, error is the
\* exception the call threw.
NewRender(slideData, globalSettings, logo, ctx) ==
    [pc |-> "running", ctx |-> ctx, slideData |-> slideData,
     globalSettings |-> globalSettings, logoSettings |-> logo,
     canvas |-> createCanvas, bgLoad |-> "none", logoLoad |-> "none",
     error |-> JsNull]

\* An exception leaves generateSlide: the returned promise rejects.  The
\* exception is the TypeError of a property write on a null context.
Throw(r) == [r EXCEPT !.pc = "threw", !.error = "TypeError"]

\* drawColorBackground (27-30); a null ctx makes ctx.fillStyle = ... throw.
drawColorBackground(r, color) ==
    IF r.pc = "threw" \/ r.ctx = JsNull THEN Throw(r)
    ELSE [r EXCEPT !.canvas.bg = color, !.canvas.ops = Append(@, "bg")]

DrawImageAndScrim_NoScrim(r) ==
    LET src == r.slideData.backgroundImage
    IN [r EXCEPT !.canvas.bg = "image", !.canvas.bgImage = src,
                 !.canvas.bgRect = <<drawImageBackground(DecodedImage(src))>>,
                 !.canvas.ops = Append(@, "bg")]

\* The try body after the await (138-140): the image, then the scrim.
DrawImageAndScrim(r) ==
    LET src == r.slideData.backgroundImage
    IN [r EXCEPT !.canvas.bg = "image", !.canvas.bgImage = src,
                 !.canvas.bgRect = <<drawImageBackground(DecodedImage(src))>>,
                 !.canvas.scrim = TRUE,
                 !.canvas.ops = @ \o <<"bg", "scrim">>]

BgLoadFailed_Rethrow(r) == Throw(r)

\* catch (e) { drawColorBackground(ctx, backgroundColor); }  (141-143)
BgLoadFailed(r) ==
    drawColorBackground(r, Get(r.slideData, "backgroundColor", "#211D58"))

ShadowAfterText_Kept == "rgba(0, 0, 0, 0.5)"

\* ctx.shadowColor = 'transparent' at the end of drawText (84)
ShadowAfterText == Transparent

\* if (text.trim()) drawText(...)  (149-151); drawText fills the lines under
\* the shadow of line 79 and resets the shadow colour after them.
TextStage(r) ==
    LET text == Get(r.slideData, "text", <<>>)
        options == r.globalSettings
    IN IF r.pc = "threw" \/ trim(text) = <<>> THEN r
       ELSE IF r.ctx = JsNull THEN Throw(r)
       ELSE [r EXCEPT !.canvas.lines = TextLines(text, options),
                      !.canvas.textX = TextX(Get(options, "textAlign", "center")),
                      !.canvas.textShadow = "rgba(0, 0, 0, 0.5)",
                      !.canvas.shadowColor = ShadowAfterText,
                      !.canvas.ops = Append(@, "text")]

\* return canvas.toDataURL('image/png', 1.0)  (163)
Encode(r) ==
    IF r.pc = "threw" THEN r
    ELSE [r EXCEPT !.pc = "returned", !.canvas.ops = Append(@, "encode")]

\* logoSettings && logoSettings.enabled && logoSettings.image  (154)
LogoWanted(r) ==
    /\ "null" \notin DOMAIN r.logoSettings
    /\ Get(r.logoSettings, "enabled", FALSE)
    /\ Get(r.logoSettings, "image", JsNull) # JsNull

\* From the logo test to the next suspension or the return (154-163).
LogoStage(r) ==
    IF r.pc = "threw" THEN r
    ELSE IF LogoWanted(r) THEN [r EXCEPT !.pc = "logoload", !.logoLoad = "pending"]
    ELSE Encode(r)

LogoLoadFailed_Rethrow(r) == Throw(r)

\* catch (e) { console.error('Failed to draw logo:', e); }  (158-160)
LogoLoadFailed(r) == r

\* generateSlide up to its first suspension or its return (129-146).
generateSlide(slideData, globalSettings, logo, ctx) ==
    LET r == NewRender(slideData, globalSettings, logo, ctx)
        backgroundType == Get(slideData, "backgroundType", "color")
        backgroundColor == Get(slideData, "backgroundColor", "#211D58")
        backgroundImage == Get(slideData, "backgroundImage", JsNull)
    IN IF backgroundType = "image" /\ backgroundImage # JsNull
       THEN [r EXCEPT !.pc = "bgload", !.bgLoad = "pending"]
       ELSE LogoStage(TextStage(drawColorBackground(r, backgroundColor)))

AfterBgLoad_TextFirst(r, ok) ==
    LET r1 == TextStage([r EXCEPT !.bgLoad = IF ok THEN "ok" ELSE "failed"])
        painted == IF ok /\ r.ctx # JsNull THEN DrawImageAndScrim(r1)
                   ELSE BgLoadFailed(r1)
    IN LogoStage(painted)

\* generateSlide resumed after await loadImage(backgroundImage) (137-151):
\* a drawing error inside the try is caught like a load failure.
AfterBgLoad(r, ok) ==
    LET r1 == [r EXCEPT !.bgLoad = IF ok THEN "ok" ELSE "failed"]
        painted == IF ok /\ r.ctx # JsNull THEN DrawImageAndScrim(r1)
                   ELSE BgLoadFailed(r1)
    IN LogoStage(TextStage(painted))

\* generateSlide resumed after await loadImage(logoSettings.image) (156-163).
AfterLogoLoad(r, ok) ==
    LET r1 == [r EXCEPT !.logoLoad = IF ok THEN "ok" ELSE "failed"]
        options == [f \in DOMAIN r.logoSettings \cap {"position", "size"}
                      |-> r.logoSettings[f]]
    IN IF ok /\ r.ctx # JsNull
       THEN Encode([r1 EXCEPT
                !.canvas.logo = <<drawLogo(DecodedImage(r.logoSettings.image), options)>>,
                !.canvas.logoShadow = r.canvas.shadowColor,
                !.canvas.ops = Append(@, "logo")])
       ELSE Encode(LogoLoadFailed(r1))

InFlightPc == {"bgload", "logoload"}

-----------------------------------------------------------------------------
(* UI state (ui.js 7-8, 267-270, 315-317) *)

\* The global settings with the controls at their defaults (ui.js 315)
DefaultGlobalSettings ==
    [slideCount |-> 3, fontFamily |-> "Montserrat", fontSize |-> 64,
     textColor |-> "#ffffff", textAlign |-> "center", backgroundColor |-> "#211D58"]

\* getGlobalSettings(): a fresh object built from the controls (ui.js 315)
getGlobalSettings ==
    [slideCount |-> controls.slideCount, fontFamily |-> controls.fontFamily,
     fontSize |-> controls.fontSize, textColor |-> controls.textColor,
     textAlign |-> controls.textAlign, backgroundColor |-> controls.backgroundColor]

\* Slides as the editor holds them: renderSlideInputs creates every slide
\* with all four fields (ui.js 269); the handlers of setupSlides and
\* setSlideImage then change text, type, colour and image.
UiSlides ==
    { [text |-> <<"a">>, backgroundType |-> "color",
       backgroundColor |-> "#ff0000", backgroundImage |-> JsNull],
      [text |-> <<"a", " ", "W">>, backgroundType |-> "image",
       backgroundColor |-> "#211D58", backgroundImage |-> "img1"],
      [text |-> <<" ">>, backgroundType |-> "image",
       backgroundColor |-> "#ff0000", backgroundImage |-> "img1"] }

\* Logo settings as setupLogoSettings leaves them (ui.js 8, 178-214).
UiLogos ==
    { [enabled |-> FALSE, image |-> JsNull, position |-> "bottom-left", size |-> 80],
      [enabled |-> TRUE, image |-> "logo1", position |-> "top-right", size |-> 120] }

\* getSlidesData(): a fresh object per slide, with its 0-based index (ui.js 316)
getSlidesData ==
    [i \in 1..Len(currentSlideData) |->
        [index |-> i - 1,
         text |-> currentSlideData[i].text,
         backgroundType |-> currentSlideData[i].backgroundType,
         backgroundColor |-> currentSlideData[i].backgroundColor,
         backgroundImage |-> currentSlideData[i].backgroundImage]]

\* getLogoSettings(): a shallow copy (ui.js 317)
getLogoSettings == logoSettings

-----------------------------------------------------------------------------
(* The batch: generateAllSlides (canvas.js 166-172) and                    *)
(* handleGenerateCarousel (part_002 77-98)                                 *)

CtxValues == {"2d", JsNull}      \* canvas.getContext('2d')

\* A call of handleGenerateCarousel that has not been made yet.
IdleCall ==
    [pc |-> "idle", slides |-> <<>>, settings |-> DefaultGlobalSettings,
     logo |-> [null |-> TRUE], images |-> <<>>, renders |-> <<>>,
     error |-> JsNull]

PushImage_Unshift(images, img) == <<img>> \o images

\* images.push(...)  (169)
PushImage(images, img) == Append(images, img)

LogoOfBatch_Shared(logo) == logoSettings

\* The logo settings a batch passes to each generateSlide call: the object
\* handleGenerateCarousel got from getLogoSettings, a copy of its own and
\* not the object the UI handlers write to (ui.js 317, canvas.js 169).
LogoOfBatch(logo) == logo

SlideFailed_ReturnPartial(c, r) == [c EXCEPT !.pc = "returned"]

\* The loop has no try: the exception of await generateSlide(...) leaves
\* generateAllSlides as it is, and the images pushed so far are dropped
\* with the frame (canvas.js 168-170).
SlideFailed(c, r) == [c EXCEPT !.pc = "threw", !.error = r.error]

SlideSettled_NoAwait(r) == TRUE

\* await generateSlide(...): generateAllSlides resumes once the promise of
\* the slide's render has settled (169).
SlideSettled(r) == r.pc \in {"returned", "threw"}

Finally_NotAfterCatch(s, threw) ==
    IF threw THEN s ELSE [s EXCEPT !.isGenerating = FALSE]

\* finally { state.isGenerating = false; ... }, after the try's end and
\* after the catch alike (part_002 94-97).
Finally(s, threw) == [s EXCEPT !.isGenerating = FALSE]

AlreadyGenerating_Never == FALSE

\* if (state.isGenerating) return;  (part_002 78)
AlreadyGenerating == state.isGenerating

\* generateAllSlides up to its first suspension: images = [], then the
\* first iteration's call of generateSlide, or the return for an empty list.
generateAllSlides(slidesData, globalSettings, logo, ctx) ==
    IF Len(slidesData) = 0
    THEN [pc |-> "returned", slides |-> slidesData, settings |-> globalSettings,
          logo |-> logo, images |-> <<>>, renders |-> <<>>, error |-> JsNull]
    ELSE [pc |-> "rendering", slides |-> slidesData, settings |-> globalSettings,
          logo |-> logo, images |-> <<>>,
          renders |-> <<generateSlide(slidesData[1], globalSettings, logo, ctx)>>,
          error |-> JsNull]

\* Click on the generate button: handleGenerateCarousel up to its await.
HandleGenerateCarousel(b, ctx) ==
    /\ calls[b].pc = "idle"
    /\ \A a \in 1..(b - 1) : calls[a].pc # "idle"
    /\ IF AlreadyGenerating
       THEN /\ calls' = [calls EXCEPT ![b].pc = "ignored"]
            /\ UNCHANGED state
       ELSE /\ state' = [state EXCEPT !.isGenerating = TRUE]
            /\ calls' = [calls EXCEPT ![b] =
                   generateAllSlides(getSlidesData, getGlobalSettings, getLogoSettings, ctx)]
    /\ UNCHANGED <<uiVars, wrapVars, geomVars, extVars>>

\* The background image of render k of call b loads (ok) or fails.
BgLoadDone(b, k, ok) ==
    /\ calls[b].pc \in {"rendering", "api"}
    /\ k \in DOMAIN calls[b].renders
    /\ calls[b].renders[k].pc = "bgload"
    /\ calls' = [calls EXCEPT ![b].renders[k] = AfterBgLoad(@, ok)]
    /\ UNCHANGED <<uiVars, state, wrapVars, geomVars, extVars>>

\* The logo image of render k of call b loads (ok) or fails.
LogoLoadDone(b, k, ok) ==
    /\ calls[b].pc \in {"rendering", "api"}
    /\ k \in DOMAIN calls[b].renders
    /\ calls[b].renders[k].pc = "logoload"
    /\ calls' = [calls EXCEPT ![b].renders[k] = AfterLogoLoad(@, ok)]
    /\ UNCHANGED <<uiVars, state, wrapVars, geomVars, extVars>>

\* generateAllSlides resumes after await generateSlide(...): it pushes the
\* image and starts the next slide, returns after the last one, or lets the
\* slide's exception propagate (168-171).
ResumeBatch(b, ctx) ==
    LET c == calls[b]
        k == Len(c.renders)
        r == c.renders[k]
    IN /\ c.pc = "rendering"
       /\ SlideSettled(r)
       /\ calls' = [calls EXCEPT ![b] =
              IF r.pc = "threw" THEN SlideFailed(c, r)
              ELSE LET images == PushImage(c.images, r.canvas)
                   IN IF k < Len(c.slides)
                      THEN [c EXCEPT !.images = images,
                                     !.renders = Append(@,
                                         generateSlide(c.slides[k + 1], c.settings,
                                                       LogoOfBatch(c.logo), ctx))]
                      ELSE [c EXCEPT !.images = images, !.pc = "returned"]]
       /\ UNCHANGED <<uiVars, state, wrapVars, geomVars, extVars>>

\* handleGenerateCarousel resumes after await generateAllSlides(...):
\* the images are stored, or the catch runs; then the finally (86-97).
\* The call is over: its locals are gone.
HandlerResume(b) ==
    /\ calls[b].pc \in {"returned", "threw"}
    /\ IF calls[b].pc = "returned"
       THEN /\ state' = Finally([state EXCEPT !.generatedImages = calls[b].images],
                                FALSE)
            /\ calls' = [calls EXCEPT ![b] = [IdleCall EXCEPT !.pc = "done"]]
       ELSE /\ state' = Finally(state, TRUE)
            /\ calls' = [calls EXCEPT ![b] = [IdleCall EXCEPT !.pc = "failed"]]
    /\ UNCHANGED <<uiVars, wrapVars, geomVars, extVars>>

-----------------------------------------------------------------------------
(* Specification of the App *)

SlideLists(S, n) == UNION {[1..m -> S] : m \in 0..n}

IdleWrap == wText = <<>> /\ wMaxWidth = 0 /\ wLines = <<>> /\ wDone = FALSE

IdleGeom ==
    /\ gImg = [width |-> 1, height |-> 1]
    /\ gOptions = [position |-> "bottom-left", size |-> 80]
    /\ gLogoRect = <<>>
    /\ gBgRect = <<>>

IdleDt == dt = [text |-> <<>>, fontSize |-> 64, drawn |-> <<>>]

\* CarouselModule as loaded (carousel.js 10-14, 25-31), its track at rest.
\* variant tells which of the file's two CarouselModule definitions the page
\* runs: 1 is the animated one (1-313), 2 the plain one (315-375), whose
\* touchStartX and touchEndX are touch.startX and touch.currentX here.
\* timers counts the pending 400 ms timeouts; hist is a history record:
\* moved says whether the gesture in progress has seen a move event, and
\* the other fields describe the gesture the step just taken ended (travel is
\* how far the pointer was seen to travel: 0 without a move event).  cleared says
\* that reset() ran while a timeout still pending had not fired.
CarouselLoaded ==
    [variant |-> 1,
     state |-> [currentIndex |-> 0, totalSlides |-> 0, isAnimating |-> FALSE],
     touch |-> [startX |-> 0, currentX |-> 0, isDragging |-> FALSE],
     track |-> [index |-> 0, px |-> 0],
     timers |-> 0,
     cleared |-> FALSE,
     hist |-> [moved |-> FALSE, ended |-> FALSE, from |-> 0, to |-> 0, travel |-> 0]]

IdleCar == car = CarouselLoaded

\* A value a webhook response carries in its options / images field, as the
\* program stores and shows it: kind is the JavaScript type ("null" for
\* none), len its length, slideIndex the slide the images were generated for
\* (-1 for text options).
NoResult == [kind |-> "null", len |-> 0, slideIndex |-> -1]

AiSlides == 0..(MaxAiSlides - 1)

NoHist ==
    [textCall |-> [inFlight |-> 0, error |-> "", sent |-> FALSE],
     last |-> [fn |-> "none", slideIndex |-> -1, error |-> "", valid |-> FALSE,
               textBefore |-> NoResult,
               imagesBefore |-> [i \in AiSlides |-> NoResult]],
     hidden |-> [by |-> -1, picker |-> -1, wasOpen |-> FALSE]]

\* AIGeneratorModule's state (ai-generator.js 11-17), the App's
\* currentAiImageSlide (part_002 6), the image picker (ui.js 310-312) and the
\* slides' background images (each the index of the slide it was generated
\* for, -1 for none), with the webhook configuration and the source files
\* given.  textCalls and imageCalls are the calls suspended at an
\* await; calls counts the requests made; hist is a history record of the
\* step just taken: textCall describes the generateTextOptions call it made,
\* last the call it ended (valid: the webhook answered with status ok and an
\* array of exactly 3 entries), hidden the picker it hid for a failed image
\* request.
AiLoaded(urls, sourceFiles) ==
    [urls |-> urls,
     sourceFiles |-> sourceFiles,
     state |-> [generatedTextOptions |-> NoResult,
                generatedImages |-> [i \in AiSlides |-> NoResult],
                isGeneratingText |-> FALSE],
     textCalls |-> <<>>,
     imageCalls |-> <<>>,
     currentAiImageSlide |-> -1,
     modal |-> [hidden |-> TRUE, slideIndex |-> -1, options |-> NoResult],
     backgroundImage |-> [i \in AiSlides |-> -1],
     calls |-> 0,
     hist |-> NoHist]

IdleAi == ai = AiLoaded([text |-> FALSE, image |-> FALSE], 0)

\* The slide-count control and the position of a renderSlideInputs call
\* (ui.js 267-272): value is the control's text, count the call's count, pc
\* its position ("idle" when none has run); before is the list the call
\* found and iterations the iterations its loops have made, both history.
RsiIdle(value) ==
    [value |-> value, count |-> 0, pc |-> "idle", before |-> <<>>, iterations |-> 0]

IdleRsi == rsi = RsiIdle(<<"3">>)

IdleExt == IdleDt /\ IdleCar /\ IdleAi /\ IdleRsi

IdleApp ==
    /\ currentSlideData = <<>>
    /\ logoSettings = [enabled |-> FALSE, image |-> JsNull,
                       position |-> "bottom-left", size |-> 80]
    /\ controls = DefaultGlobalSettings
    /\ edits = 0
    /\ state = [generatedImages |-> <<>>, isGenerating |-> FALSE]
    /\ calls = [b \in 1..MaxRequests |-> IdleCall]

Init ==
    /\ currentSlideData \in SlideLists(UiSlides, MaxSlides)
    /\ logoSettings \in UiLogos
    /\ controls = DefaultGlobalSettings
    /\ edits = 0
    /\ state = [generatedImages |-> <<>>, isGenerating |-> FALSE]
    /\ calls = [b \in 1..MaxRequests |-> IdleCall]
    /\ IdleWrap
    /\ IdleGeom
    /\ IdleExt

Next ==
    \/ \E b \in 1..MaxRequests, ctx \in CtxValues : HandleGenerateCarousel(b, ctx)
    \/ \E b \in 1..MaxRequests, k \in 1..MaxSlides, ok \in BOOLEAN : BgLoadDone(b, k, ok)
    \/ \E b \in 1..MaxRequests, k \in 1..MaxSlides, ok \in BOOLEAN : LogoLoadDone(b, k, ok)
    \/ \E b \in 1..MaxRequests, ctx \in CtxValues : ResumeBatch(b, ctx)
    \/ \E b \in 1..MaxRequests : HandlerResume(b)

Spec == Init /\ [][Next]_vars

-----------------------------------------------------------------------------
(* Specification of the App with the editor in use: one generate request   *)
(* and the handlers of the settings panel, the logo panel and the slide    *)
(* cards, which may run whenever the batch is suspended.                   *)

\* renderSlideInputs: the list is grown with default slides or cut down to
\* count entries (ui.js 268-270).
RenderSlideInputs(data, count, defBg) ==
    IF Len(data) < count
    THEN data \o [i \in 1..(count - Len(data)) |->
                     [text |-> <<>>, backgroundType |-> "color",
                      backgroundColor |-> defBg, backgroundImage |-> JsNull]]
    ELSE SubSeq(data, 1, count)

CanEdit == edits < MaxEdits

\* input on a slide's textarea (ui.js 258)
SlideTextInput(i, value) ==
    /\ CanEdit
    /\ i \in DOMAIN currentSlideData
    /\ currentSlideData' = [currentSlideData EXCEPT ![i].text = value]
    /\ edits' = edits + 1
    /\ UNCHANGED <<logoSettings, controls, state, calls, wrapVars, geomVars, extVars>>

\* click on a slide's Color / Image button (ui.js 247-252)
BgTypeClick(i, type) ==
    /\ CanEdit
    /\ i \in DOMAIN currentSlideData
    /\ currentSlideData' = [currentSlideData EXCEPT ![i].backgroundType = type]
    /\ edits' = edits + 1
    /\ UNCHANGED <<logoSettings, controls, state, calls, wrapVars, geomVars, extVars>>

\* change of a slide's colour picker (ui.js 261)
SlideBgColorChange(i, value) ==
    /\ CanEdit
    /\ i \in DOMAIN currentSlideData
    /\ currentSlideData' = [currentSlideData EXCEPT ![i].backgroundColor = value]
    /\ edits' = edits + 1
    /\ UNCHANGED <<logoSettings, controls, state, calls, wrapVars, geomVars, extVars>>

\* setSlideImage(idx, img) (ui.js 275)
setSlideImage(i, img) ==
    /\ CanEdit
    /\ i \in DOMAIN currentSlideData
    /\ currentSlideData' = [currentSlideData EXCEPT ![i].backgroundImage = img,
                                                    ![i].backgroundType = "image"]
    /\ edits' = edits + 1
    /\ UNCHANGED <<logoSettings, controls, state, calls, wrapVars, geomVars, extVars>>

\* click on a slide's remove-image button (ui.js 255-256)
RemoveImageClick(i) ==
    /\ CanEdit
    /\ i \in DOMAIN currentSlideData
    /\ currentSlideData[i].backgroundImage # JsNull
    /\ currentSlideData' = [currentSlideData EXCEPT ![i].backgroundImage = JsNull]
    /\ edits' = edits + 1
    /\ UNCHANGED <<logoSettings, controls, state, calls, wrapVars, geomVars, extVars>>

\* click on the slide count's minus button (ui.js 164)
SlidesDecrease ==
    /\ CanEdit
    /\ controls.slideCount > 1
    /\ controls' = [controls EXCEPT !.slideCount = @ - 1]
    /\ currentSlideData' = RenderSlideInputs(currentSlideData, controls.slideCount - 1,
                                             controls.backgroundColor)
    /\ edits' = edits + 1
    /\ UNCHANGED <<logoSettings, state, calls, wrapVars, geomVars, extVars>>

\* click on the slide count's plus button (ui.js 165); the list of the
\* model stops at MaxSlides where the program's stops at 10.
SlidesIncrease ==
    /\ CanEdit
    /\ controls.slideCount < MaxSlides
    /\ controls' = [controls EXCEPT !.slideCount = @ + 1]
    /\ currentSlideData' = RenderSlideInputs(currentSlideData, controls.slideCount + 1,
                                             controls.backgroundColor)
    /\ edits' = edits + 1
    /\ UNCHANGED <<logoSettings, state, calls, wrapVars, geomVars, extVars>>

\* change of the font size field (ui.js 167-168, read at 315)
FontSizeChange(value) ==
    /\ CanEdit
    /\ controls' = [controls EXCEPT !.fontSize = value]
    /\ edits' = edits + 1
    /\ UNCHANGED <<currentSlideData, logoSettings, state, calls, wrapVars, geomVars, extVars>>

\* click on a text alignment button (ui.js 173-175, read at 315)
TextAlignClick(align) ==
    /\ CanEdit
    /\ controls' = [controls EXCEPT !.textAlign = align]
    /\ edits' = edits + 1
    /\ UNCHANGED <<currentSlideData, logoSettings, state, calls, wrapVars, geomVars, extVars>>

\* change of the logo checkbox (ui.js 179-182)
LogoEnabledChange(checked) ==
    /\ CanEdit
    /\ logoSettings' = [logoSettings EXCEPT !.enabled = checked]
    /\ edits' = edits + 1
    /\ UNCHANGED <<currentSlideData, controls, state, calls, wrapVars, geomVars, extVars>>

\* the FileReader of the logo upload delivers the file (ui.js 188-189)
LogoFileLoaded(result) ==
    /\ CanEdit
    /\ logoSettings' = [logoSettings EXCEPT !.image = result]
    /\ edits' = edits + 1
    /\ UNCHANGED <<currentSlideData, controls, state, calls, wrapVars, geomVars, extVars>>

\* click on a logo position button (ui.js 198-203)
LogoPositionClick(position) ==
    /\ CanEdit
    /\ logoSettings' = [logoSettings EXCEPT !.position = position]
    /\ edits' = edits + 1
    /\ UNCHANGED <<currentSlideData, controls, state, calls, wrapVars, geomVars, extVars>>

\* input on the logo size range (ui.js 206-209)
LogoSizeInput(value) ==
    /\ CanEdit
    /\ logoSettings' = [logoSettings EXCEPT !.size = value]
    /\ edits' = edits + 1
    /\ UNCHANGED <<currentSlideData, controls, state, calls, wrapVars, geomVars, extVars>>

\* A slide with a text and an uploaded background image.
ImageSlide ==
    [text |-> <<"a", " ", "W">>, backgroundType |-> "image",
     backgroundColor |-> "#211D58", backgroundImage |-> "img1"]

\* The editor after the user has set up 1..MaxSlides slides with a text and
\* an image each: the slide count control shows the length of the list.
InitEdit ==
    /\ currentSlideData \in SlideLists({ImageSlide}, MaxSlides) \ {<<>>}
    /\ logoSettings \in UiLogos
    /\ controls = [DefaultGlobalSettings EXCEPT !.slideCount = Len(currentSlideData)]
    /\ edits = 0
    /\ state = [generatedImages |-> <<>>, isGenerating |-> FALSE]
    /\ calls = [b \in 1..MaxRequests |-> IdleCall]
    /\ IdleWrap
    /\ IdleGeom
    /\ IdleExt

UiEdit ==
    \/ \E i \in 1..MaxSlides : SlideTextInput(i, <<"W">>)
    \/ \E i \in 1..MaxSlides, type \in {"color", "image"} : BgTypeClick(i, type)
    \/ \E i \in 1..MaxSlides : SlideBgColorChange(i, "#00ff00")
    \/ \E i \in 1..MaxSlides : setSlideImage(i, "img2")
    \/ \E i \in 1..MaxSlides : RemoveImageClick(i)
    \/ SlidesDecrease
    \/ SlidesIncrease
    \/ FontSizeChange(32)
    \/ TextAlignClick("left")
    \/ \E checked \in BOOLEAN : LogoEnabledChange(checked)
    \/ LogoFileLoaded("logo2")
    \/ LogoPositionClick("top-left")
    \/ LogoSizeInput(40)

NextEdit ==
    \/ UiEdit
    \/ HandleGenerateCarousel(1, "2d")
    \/ \E k \in 1..MaxSlides, ok \in BOOLEAN : BgLoadDone(1, k, ok)
    \/ \E k \in 1..MaxSlides, ok \in BOOLEAN : LogoLoadDone(1, k, ok)
    \/ ResumeBatch(1, "2d")
    \/ HandlerResume(1)

SpecEdit == InitEdit /\ [][NextEdit]_vars

-----------------------------------------------------------------------------
(* Specification of one direct call of CanvasModule.generateSlide: the     *)
(* arguments range over what the exported function accepts, properties     *)
(* left undefined included.                                                *)

Restrict(obj, fields) == [f \in fields |-> obj[f]]

ApiSlides ==
    { Restrict([text |-> t, backgroundType |-> ty, backgroundColor |-> "#ff0000",
                backgroundImage |-> im], fields) :
        t \in {<<"a">>, <<" ">>},
        ty \in {"color", "image"},
        im \in {JsNull, "img1"},
        fields \in SUBSET {"text", "backgroundType", "backgroundColor", "backgroundImage"} }

ApiLogos ==
    UiLogos \cup
    { [null |-> TRUE],
      [enabled |-> TRUE, image |-> JsNull, position |-> "bottom-left", size |-> 80],
      [enabled |-> TRUE, image |-> "logo1"] }

ApiGenerateSlide(slideData, logo, ctx) ==
    /\ calls[1].pc = "idle"
    /\ calls' = [calls EXCEPT ![1] =
           [pc |-> "api", slides |-> <<slideData>>, settings |-> DefaultGlobalSettings,
            logo |-> logo, images |-> <<>>,
            renders |-> <<generateSlide(slideData, DefaultGlobalSettings, logo, ctx)>>,
            error |-> JsNull]]
    /\ UNCHANGED <<uiVars, state, wrapVars, geomVars, extVars>>

InitApi == IdleApp /\ IdleWrap /\ IdleGeom /\ IdleExt

NextApi ==
    \/ \E slideData \in ApiSlides, logo \in ApiLogos, ctx \in CtxValues :
           ApiGenerateSlide(slideData, logo, ctx)
    \/ \E ok \in BOOLEAN : BgLoadDone(1, 1, ok)
    \/ \E ok \in BOOLEAN : LogoLoadDone(1, 1, ok)

SpecApi == InitApi /\ [][NextApi]_vars

-----------------------------------------------------------------------------
(* Specification of getWrappedLines as a function *)

\* A drawing context whose font makes widths equal glyph units.
WrapCtx == [fontSize |-> 1]

WrapText ==
    /\ ~wDone
    /\ wLines' = getWrappedLines(WrapCtx, wText, wMaxWidth)
    /\ wDone' = TRUE
    /\ UNCHANGED <<wText, wMaxWidth, appVars, geomVars, extVars>>

InitWrap ==
    /\ IdleApp
    /\ IdleGeom
    /\ IdleExt
    /\ wText \in SeqsUpTo(Chars, MaxTextLen)
    /\ wMaxWidth \in (-1)..MaxWidth
    /\ wLines = <<>>
    /\ wDone = FALSE

NextWrap == WrapText

SpecWrap == InitWrap /\ [][NextWrap]_vars

-----------------------------------------------------------------------------
(* Specification of drawLogo and drawImageBackground as functions *)

Positions == {"top-left", "top-right", "bottom-left", "bottom-right"}

GeomOptions ==
    { [position |-> p, size |-> sz] : p \in Positions \cup {"center"},
                                        sz \in {40, 80, 1200} }
    \cup { [size |-> 80], [position |-> "top-right"] }

GeomDrawLogo ==
    /\ gLogoRect = <<>>
    /\ gLogoRect' = <<drawLogo(gImg, gOptions)>>
    /\ UNCHANGED <<gImg, gOptions, gBgRect, appVars, wrapVars, extVars>>

GeomDrawBackground ==
    /\ gBgRect = <<>>
    /\ gBgRect' = <<drawImageBackground(gImg)>>
    /\ UNCHANGED <<gImg, gOptions, gLogoRect, appVars, wrapVars, extVars>>

InitGeom ==
    /\ IdleApp
    /\ IdleWrap
    /\ IdleExt
    /\ gImg \in [width : 1..MaxDim, height : 1..MaxDim]
    /\ gOptions \in GeomOptions
    /\ gLogoRect = <<>>
    /\ gBgRect = <<>>

NextGeom == GeomDrawLogo \/ GeomDrawBackground

SpecGeom == InitGeom /\ [][NextGeom]_vars

-----------------------------------------------------------------------------
(* Specification of drawText as a function of the text and the font size *)

FontSizes == {16, 64, 120, 230}

\* drawText (canvas.js 67-85): the wrapped lines of the text, and the y of
\* the fillText call of each.
DrawText ==
    /\ dt.drawn = <<>>
    /\ LET lines == TextLines(dt.text, [fontSize |-> dt.fontSize])
       IN dt' = [dt EXCEPT !.drawn = <<[lines |-> lines,
                                        ys |-> TextYs(Len(lines), dt.fontSize)]>>]
    /\ UNCHANGED <<appVars, wrapVars, geomVars, car, ai, rsi>>

InitText ==
    /\ IdleApp
    /\ IdleWrap
    /\ IdleGeom
    /\ IdleCar
    /\ IdleAi
    /\ IdleRsi
    /\ dt \in [text : SeqsUpTo(Chars, MaxTextLen), fontSize : FontSizes, drawn : {<<>>}]

NextText == DrawText

SpecText == InitText /\ [][NextText]_vars

-----------------------------------------------------------------------------
(* Specification of the carousel (carousel.js 1-313): navigation calls,    *)
(* touch and mouse gestures, arrow keys, reset and the animation timers.   *)
(* The track's transform translateX(p%) is the record [index, px]:         *)
(* p = -index * 100 + (px / container width) * 100.                        *)

threshold == 50      \* touch.threshold

Xs == {0, 50, 120}   \* clientX of the pointer events

Abs(n) == IF n < 0 THEN -n ELSE n

\* updatePosition(animate) (104-121)
updatePosition(c, animate) ==
    [c EXCEPT !.track = [index |-> c.state.currentIndex, px |-> 0],
              !.state.isAnimating = IF animate THEN TRUE ELSE @,
              !.timers = IF animate THEN @ + 1 ELSE @]

InRange_NoUpper(c, index) == index >= 0

\* the range test of goToSlide (70), negated
InRange(c, index) == ~(index < 0 \/ index >= c.state.totalSlides)

\* goToSlide(index) (68-80)
goToSlide(c, index) ==
    IF c.state.isAnimating THEN c
    ELSE IF ~InRange(c, index) THEN c
    ELSE IF index = c.state.currentIndex THEN c
    ELSE updatePosition([c EXCEPT !.state.currentIndex = index], TRUE)

\* nextSlide() (85-89)
nextSlide(c) ==
    IF c.state.currentIndex < c.state.totalSlides - 1
    THEN goToSlide(c, c.state.currentIndex + 1) ELSE c

\* prevSlide() (94-98)
prevSlide(c) ==
    IF c.state.currentIndex > 0 THEN goToSlide(c, c.state.currentIndex - 1) ELSE c

\* The body handleTouchStart and handleMouseDown share (164-170, 220-227)
StartDrag(c, x) ==
    IF c.state.isAnimating THEN c
    ELSE [c EXCEPT !.touch.startX = x, !.touch.isDragging = TRUE,
                   !.hist.moved = FALSE]

\* The body handleTouchMove and handleMouseMove share (176-190, 233-243);
\* follow is the test Math.abs(diffX) > Math.abs(diffY), always true for the
\* mouse.
MoveDrag(c, x, follow) ==
    IF ~c.touch.isDragging THEN c
    ELSE LET c1 == [c EXCEPT !.touch.currentX = x, !.hist.moved = TRUE]
             diffX == x - c.touch.startX
         IN IF follow
            THEN [c1 EXCEPT !.track = [index |-> c.state.currentIndex, px |-> diffX]]
            ELSE c1

\* The body handleTouchEnd and handleMouseUp share (195-214, 248-268)
EndDrag(c) ==
    IF ~c.touch.isDragging THEN c
    ELSE LET c1 == [c EXCEPT !.touch.isDragging = FALSE]
             diffX == c.touch.currentX - c.touch.startX
             c2 == IF Abs(diffX) > threshold
                   THEN IF diffX > 0 THEN prevSlide(c1) ELSE nextSlide(c1)
                   ELSE updatePosition(c1, TRUE)
         IN [c2 EXCEPT !.touch.startX = 0, !.touch.currentX = 0,
                       !.hist = [moved |-> FALSE, ended |-> TRUE,
                                 from |-> c.state.currentIndex,
                                 to |-> c2.state.currentIndex,
                                 travel |-> IF c.hist.moved THEN diffX ELSE 0]]

\* The history of a step that ended no gesture.
Forget(c) ==
    [c EXCEPT !.hist = [moved |-> c.hist.moved, ended |-> FALSE, from |-> 0,
                        to |-> 0, travel |-> 0]]

\* The model keeps at most MaxTimers timeouts pending.
TimersCapped(c) == c.timers <= MaxTimers

carRest == <<appVars, wrapVars, geomVars, dt, ai, rsi>>

\* setTotalSlides(total) (57-62)
SetTotalSlides(total) ==
    /\ car.variant = 1
    /\ car' = Forget(updatePosition([car EXCEPT !.state.totalSlides = total,
                                                !.state.currentIndex = 0],
                                    FALSE))
    /\ UNCHANGED carRest

\* a dot click or a direct call of goToSlide
GoToSlide(index) ==
    /\ car.variant = 1
    /\ TimersCapped(goToSlide(car, index))
    /\ car' = Forget(goToSlide(car, index))
    /\ UNCHANGED carRest

\* the next button, ArrowRight (283-285) or a direct call
NextSlide ==
    /\ car.variant = 1
    /\ TimersCapped(nextSlide(car))
    /\ car' = Forget(nextSlide(car))
    /\ UNCHANGED carRest

\* the previous button, ArrowLeft (280-282) or a direct call
PrevSlide ==
    /\ car.variant = 1
    /\ TimersCapped(prevSlide(car))
    /\ car' = Forget(prevSlide(car))
    /\ UNCHANGED carRest

\* reset() (293-301)
Reset ==
    /\ car.variant = 1
    /\ car' = Forget([car EXCEPT !.state = [currentIndex |-> 0, totalSlides |-> 0,
                                            isAnimating |-> FALSE],
                                 !.track = [index |-> 0, px |-> 0],
                                 !.cleared = @ \/ car.timers > 0])
    /\ UNCHANGED carRest

HandleTouchStart(x) ==
    /\ car.variant = 1
    /\ car' = Forget(StartDrag(car, x))
    /\ UNCHANGED carRest

HandleTouchMove(x, horizontal) ==
    /\ car.variant = 1
    /\ horizontal => x # car.touch.startX
    /\ car' = Forget(MoveDrag(car, x, horizontal))
    /\ UNCHANGED carRest

\* touchend and touchcancel (151-152)
HandleTouchEnd ==
    /\ car.variant = 1
    /\ TimersCapped(EndDrag(car))
    /\ car' = EndDrag(car)
    /\ UNCHANGED carRest

HandleMouseDown(x) ==
    /\ car.variant = 1
    /\ car' = Forget(StartDrag(car, x))
    /\ UNCHANGED carRest

HandleMouseMove(x) ==
    /\ car.variant = 1
    /\ car' = Forget(MoveDrag(car, x, TRUE))
    /\ UNCHANGED carRest

HandleMouseUp ==
    /\ car.variant = 1
    /\ TimersCapped(EndDrag(car))
    /\ car' = EndDrag(car)
    /\ UNCHANGED carRest

\* A 400 ms timeout of updatePosition fires (113-115)
TimerExpires ==
    /\ car.variant = 1
    /\ car.timers > 0
    /\ car' = Forget([car EXCEPT !.timers = @ - 1, !.state.isAnimating = FALSE,
                                 !.cleared = @ /\ car.timers > 1])
    /\ UNCHANGED carRest

\* updateTrackPosition() of the plain carousel (366-370)
updateTrackPosition(c) ==
    [c EXCEPT !.track = [index |-> c.state.currentIndex, px |-> 0]]

\* The test of the plain goToSlide (351)
InRange2(c, index) == index >= 0 /\ index < c.state.totalSlides

\* goToSlide(index) of the plain carousel (350-356)
goToSlide2(c, index) ==
    IF InRange2(c, index)
    THEN updateTrackPosition([c EXCEPT !.state.currentIndex = index])
    ELSE c

\* nextSlide() of the plain carousel (358-360)
nextSlide2(c) ==
    IF c.state.currentIndex < c.state.totalSlides - 1
    THEN goToSlide2(c, c.state.currentIndex + 1) ELSE c

\* prevSlide() of the plain carousel (362-364)
prevSlide2(c) ==
    IF c.state.currentIndex > 0 THEN goToSlide2(c, c.state.currentIndex - 1) ELSE c

\* handleSwipe() (337-342)
handleSwipe(c) ==
    LET diff == c.touch.startX - c.touch.currentX
    IN IF Abs(diff) > 50
       THEN IF diff > 0 THEN nextSlide2(c) ELSE prevSlide2(c)
       ELSE c

\* setTotalSlides(count) of the plain carousel (344-348)
SetTotalSlides2(count) ==
    /\ car.variant = 2
    /\ car' = Forget(updateTrackPosition([car EXCEPT !.state.totalSlides = count,
                                              !.state.currentIndex = 0]))
    /\ UNCHANGED carRest

\* a dot click or a direct call of the plain goToSlide
GoToSlide2(index) ==
    /\ car.variant = 2
    /\ car' = Forget(goToSlide2(car, index))
    /\ UNCHANGED carRest

\* the next button or ArrowRight (333)
NextSlide2 ==
    /\ car.variant = 2
    /\ car' = Forget(nextSlide2(car))
    /\ UNCHANGED carRest

\* the previous button or ArrowLeft (332)
PrevSlide2 ==
    /\ car.variant = 2
    /\ car' = Forget(prevSlide2(car))
    /\ UNCHANGED carRest

\* touchstart on the plain carousel (327)
TouchStart2(x) ==
    /\ car.variant = 2
    /\ car' = Forget([car EXCEPT !.touch.startX = x])
    /\ UNCHANGED carRest

\* touchend on the plain carousel (328)
TouchEnd2(x) ==
    /\ car.variant = 2
    /\ car' = Forget(handleSwipe([car EXCEPT !.touch.currentX = x]))
    /\ UNCHANGED carRest

InitCarousel ==
    /\ IdleApp
    /\ IdleWrap
    /\ IdleGeom
    /\ IdleDt
    /\ IdleAi
    /\ IdleRsi
    /\ \E variant \in {1, 2} : car = [CarouselLoaded EXCEPT !.variant = variant]

NextCarousel ==
    \/ \E total \in 0..MaxTotal : SetTotalSlides(total)
    \/ \E index \in (-1)..MaxTotal : GoToSlide(index)
    \/ NextSlide
    \/ PrevSlide
    \/ Reset
    \/ \E x \in Xs : HandleTouchStart(x)
    \/ \E x \in Xs, horizontal \in BOOLEAN : HandleTouchMove(x, horizontal)
    \/ HandleTouchEnd
    \/ \E x \in Xs : HandleMouseDown(x)
    \/ \E x \in Xs : HandleMouseMove(x)
    \/ HandleMouseUp
    \/ TimerExpires
    \/ \E count \in 0..MaxTotal : SetTotalSlides2(count)
    \/ \E index \in (-1)..MaxTotal : GoToSlide2(index)
    \/ NextSlide2
    \/ PrevSlide2
    \/ \E x \in Xs : TouchStart2(x)
    \/ \E x \in Xs : TouchEnd2(x)

SpecCarousel == InitCarousel /\ [][NextCarousel]_vars

-----------------------------------------------------------------------------
(* Specification of the AI requests: generateTextOptions and               *)
(* generateImagesForSlide (ai-generator.js 89-152), the App's handlers      *)
(* around them (part_002 22-75) and the image picker (ui.js 300-312).  A   *)
(* call is suspended at each await; the webhook's answers arrive in any     *)
(* order.  The webhook configuration and the source files are given.        *)

ErrTextUrl == "Text generation webhook URL not configured."
ErrNoSource == "Please upload at least one source file."
ErrTextBusy == "Text generation already in progress."
ErrImageUrl == "Image generation webhook URL not configured."
ErrStatus == "Webhook returned status"
ErrImageStatus == "Image webhook returned status"
ErrFormat == "Invalid response format."
ErrImageFormat == "Invalid image response."
ErrFetch == "Failed to fetch"
ErrJson == "SyntaxError"

\* How an await of fetch can end: rejected, or a response whose ok is false
\* or true.
Statuses == {"rejected", "notOk", "ok"}

\* What an await of response.json() can bring for the options / images
\* field: a body that is not JSON, no such field, an array of two or three
\* entries, a string of three characters.
Bodies ==
    {[kind |-> "syntaxError", len |-> 0], [kind |-> "undefined", len |-> 0],
     [kind |-> "array", len |-> 2], [kind |-> "array", len |-> 3],
     [kind |-> "string", len |-> 3]}

Result(body, slideIndex) ==
    [kind |-> body.kind, len |-> body.len, slideIndex |-> slideIndex]

RemoveAt(seq, k) == SubSeq(seq, 1, k - 1) \o SubSeq(seq, k + 1, Len(seq))

\* The suspended image calls are kept ordered by slide and position: the
\* order in which the program holds its pending promises decides nothing.
Insert(seq, call) ==
    LET key(c) == 2 * c.slideIndex + (IF c.pc = "json" THEN 1 ELSE 0)
        n == Cardinality({j \in DOMAIN seq : key(seq[j]) <= key(call)})
    IN SubSeq(seq, 1, n) \o <<call>> \o SubSeq(seq, n + 1, Len(seq))

\* The tests of lines 117 and 148, negated: !result.options ||
\* result.options.length !== 3
Accepts(body) == ~(body.kind = "undefined" \/ body.len # 3)

TextBusy_Never(a) == FALSE

\* The test of line 93
TextBusy(a) == a.state.isGeneratingText

\* The throws of generateTextOptions before its try (91-93); "" for none.
TextError(a) ==
    IF ~a.urls.text THEN ErrTextUrl
    ELSE IF a.sourceFiles = 0 THEN ErrNoSource
    ELSE IF TextBusy(a) THEN ErrTextBusy
    ELSE ""

\* The history of a call that ended in a, with error ("" when it returned).
Ended(a, before, fn, slideIndex, error, status, body) ==
    [a EXCEPT !.hist = [NoHist EXCEPT !.last =
        [fn |-> fn, slideIndex |-> slideIndex, error |-> error,
         valid |-> status = "ok" /\ body.kind = "array" /\ body.len = 3,
         textBefore |-> before.state.generatedTextOptions,
         imagesBefore |-> before.state.generatedImages]]]

\* generateTextOptions(slideCount) up to its first await (89-108), called by
\* handleGenerateText (part_002 29).
GenerateTextOptions ==
    /\ ai.calls < MaxAiCalls
    /\ LET error == TextError(ai)
           a1 == [ai EXCEPT !.calls = @ + 1]
           a2 == IF error # ""
                 THEN Ended(a1, ai, "text", -1, error, "", NoResult)
                 ELSE [a1 EXCEPT !.state.isGeneratingText = TRUE,
                                 !.textCalls = Append(@, [pc |-> "fetch"]),
                                 !.hist = NoHist]
       IN ai' = [a2 EXCEPT !.hist.textCall = [inFlight |-> Len(ai.textCalls),
                                              error |-> error,
                                              sent |-> error = ""]]
    /\ UNCHANGED <<appVars, wrapVars, geomVars, dt, car, rsi>>

\* Text call k leaves its try: the finally of lines 121-123.
TextEnds(a, k, error, status, body) ==
    Ended([a EXCEPT !.state.isGeneratingText = FALSE,
                    !.textCalls = RemoveAt(@, k)],
          ai, "text", -1, error, status, body)

\* The await of fetch in generateTextOptions settles (108-114).
TextFetchSettles(k, status) ==
    /\ k \in DOMAIN ai.textCalls
    /\ ai.textCalls[k].pc = "fetch"
    /\ ai' = IF status = "rejected" THEN TextEnds(ai, k, ErrFetch, status, NoResult)
             ELSE IF status = "notOk" THEN TextEnds(ai, k, ErrStatus, status, NoResult)
             ELSE [ai EXCEPT !.textCalls[k].pc = "json", !.hist = NoHist]
    /\ UNCHANGED <<appVars, wrapVars, geomVars, dt, car, rsi>>

\* The await of response.json() in generateTextOptions settles (116-120).
TextJsonSettles(k, body) ==
    /\ k \in DOMAIN ai.textCalls
    /\ ai.textCalls[k].pc = "json"
    /\ LET result == Result(body, -1)
       IN ai' = IF body.kind = "syntaxError"
                THEN TextEnds(ai, k, ErrJson, "ok", result)
                ELSE IF ~Accepts(body)
                THEN TextEnds(ai, k, ErrFormat, "ok", result)
                ELSE TextEnds([ai EXCEPT !.state.generatedTextOptions = result],
                              k, "", "ok", result)
    /\ UNCHANGED <<appVars, wrapVars, geomVars, dt, car, rsi>>

\* showAiImageModal(idx) (ui.js 310)
showAiImageModal(idx) == [hidden |-> FALSE, slideIndex |-> idx, options |-> NoResult]

\* handleGenerateAiImage(slideIndex) up to the await of fetch (part_002
\* 51-56, ai-generator.js 126-139); without an image webhook the call throws
\* and the catch shows the mock images (part_002 60-62).
HandleGenerateAiImage(slideIndex) ==
    /\ ai.calls < MaxAiCalls
    /\ LET a1 == [ai EXCEPT !.calls = @ + 1,
                            !.currentAiImageSlide = slideIndex,
                            !.modal = showAiImageModal(slideIndex),
                            !.hist = NoHist]
           mock == [kind |-> "array", len |-> 3, slideIndex |-> slideIndex]
       IN ai' = IF ~ai.urls.image
                THEN Ended([a1 EXCEPT !.modal.options = mock], ai, "image",
                           slideIndex, ErrImageUrl, "", NoResult)
                ELSE [a1 EXCEPT !.imageCalls =
                        Insert(@, [slideIndex |-> slideIndex, pc |-> "fetch"])]
    /\ UNCHANGED <<appVars, wrapVars, geomVars, dt, car, rsi>>

\* Image call k throws after an await: the catch of handleGenerateAiImage
\* shows a toast and hides the picker (part_002 63-66).
ImageFails(a, k, error, status, body) ==
    [Ended([a EXCEPT !.imageCalls = RemoveAt(@, k), !.modal.hidden = TRUE],
           a, "image", a.imageCalls[k].slideIndex, error, status, body)
     EXCEPT !.hist.hidden = [by |-> a.imageCalls[k].slideIndex,
                             picker |-> a.modal.slideIndex,
                             wasOpen |-> ~a.modal.hidden]]

\* The await of fetch in generateImagesForSlide settles (139-145).
ImageFetchSettles(k, status) ==
    /\ k \in DOMAIN ai.imageCalls
    /\ ai.imageCalls[k].pc = "fetch"
    /\ ai' = IF status = "rejected" THEN ImageFails(ai, k, ErrFetch, status, NoResult)
             ELSE IF status = "notOk"
             THEN ImageFails(ai, k, ErrImageStatus, status, NoResult)
             ELSE [ai EXCEPT !.imageCalls =
                                Insert(RemoveAt(@, k), [@[k] EXCEPT !.pc = "json"]),
                             !.hist = NoHist]
    /\ UNCHANGED <<appVars, wrapVars, geomVars, dt, car, rsi>>

\* The await of response.json() in generateImagesForSlide settles (147-151);
\* on return handleGenerateAiImage fills the picker (part_002 57, ui.js 312).
ImageJsonSettles(k, body) ==
    /\ k \in DOMAIN ai.imageCalls
    /\ ai.imageCalls[k].pc = "json"
    /\ LET call == ai.imageCalls[k]
           result == Result(body, call.slideIndex)
       IN ai' = IF body.kind = "syntaxError"
                THEN ImageFails(ai, k, ErrJson, "ok", result)
                ELSE IF ~Accepts(body)
                THEN ImageFails(ai, k, ErrImageFormat, "ok", result)
                ELSE Ended([ai EXCEPT
                              !.state.generatedImages[call.slideIndex] = result,
                              !.imageCalls = RemoveAt(@, k),
                              !.modal.options = result],
                           ai, "image", call.slideIndex, "", "ok", result)
    /\ UNCHANGED <<appVars, wrapVars, geomVars, dt, car, rsi>>

\* A click on the picker's confirm button with an image selected (ui.js
\* 303): handleSelectAiImage (part_002 70-75), setSlideImage (ui.js 275),
\* hideAiImageModal.
HandleSelectAiImage ==
    /\ ~ai.modal.hidden
    /\ ai.modal.options # NoResult
    /\ ai' = [ai EXCEPT !.backgroundImage =
                           IF ai.currentAiImageSlide # -1
                           THEN [@ EXCEPT ![ai.currentAiImageSlide] =
                                            ai.modal.options.slideIndex]
                           ELSE @,
                        !.modal.hidden = TRUE,
                        !.hist = NoHist]
    /\ UNCHANGED <<appVars, wrapVars, geomVars, dt, car, rsi>>

\* A click on the picker's close or cancel button or its backdrop (ui.js
\* 300-301, 304): hideAiImageModal (ui.js 311).
HideAiImageModal ==
    /\ ~ai.modal.hidden
    /\ ai' = [ai EXCEPT !.modal.hidden = TRUE, !.hist = NoHist]
    /\ UNCHANGED <<appVars, wrapVars, geomVars, dt, car, rsi>>

InitAi ==
    /\ IdleApp
    /\ IdleWrap
    /\ IdleGeom
    /\ IdleDt
    /\ IdleCar
    /\ IdleRsi
    /\ \E urls \in [text : BOOLEAN, image : BOOLEAN], sourceFiles \in 0..1 :
        ai = AiLoaded(urls, sourceFiles)

NextAi ==
    \/ GenerateTextOptions
    \/ \E k \in 1..MaxAiCalls, status \in Statuses : TextFetchSettles(k, status)
    \/ \E k \in 1..MaxAiCalls, body \in Bodies : TextJsonSettles(k, body)
    \/ \E slideIndex \in AiSlides : HandleGenerateAiImage(slideIndex)
    \/ \E k \in 1..MaxAiCalls, status \in Statuses : ImageFetchSettles(k, status)
    \/ \E k \in 1..MaxAiCalls, body \in Bodies : ImageJsonSettles(k, body)
    \/ HandleSelectAiImage
    \/ HideAiImageModal

SpecAi == InitAi /\ [][NextAi]_vars

-----------------------------------------------------------------------------
(* Specification of the slide-count control (ui.js 163-166) and            *)
(* renderSlideInputs (ui.js 267-272), one loop iteration per step.  A      *)
(* handler runs to completion: the control takes the next event only when  *)
(* no call is inside its loops.                                            *)

Digits == <<"0", "1", "2", "3", "4", "5", "6", "7", "8", "9">>

IsDigit(c) == \E d \in DOMAIN Digits : Digits[d] = c

DigitValue(c) == (CHOOSE d \in DOMAIN Digits : Digits[d] = c) - 1

NaN == [nan |-> TRUE, n |-> 0]

RECURSIVE ParseDigits(_, _, _)
ParseDigits(str, i, acc) ==
    IF i > Len(str) \/ ~IsDigit(str[i]) THEN acc
    ELSE ParseDigits(str, i + 1, 10 * acc + DigitValue(str[i]))

\* parseInt(string): an optional sign, then the longest run of digits; NaN
\* when there is no digit.
parseInt(str) ==
    LET negative == str # <<>> /\ str[1] = "-"
        first == IF negative THEN 2 ELSE 1
    IN IF first > Len(str) \/ ~IsDigit(str[first]) THEN NaN
       ELSE [nan |-> FALSE,
             n |-> (IF negative THEN -1 ELSE 1) * ParseDigits(str, first, 0)]

RECURSIVE NatToString(_)
NatToString(n) ==
    IF n < 10 THEN <<Digits[n + 1]>>
    ELSE NatToString(n \div 10) \o <<Digits[(n % 10) + 1]>>

\* The string an assignment of a number to input.value leaves there.
NumberToString(n) == IF n < 0 THEN <<"-">> \o NatToString(-n) ELSE NatToString(n)

\* parseInt(elements.slideCount.value) || 3 (ui.js 268)
CountOf(value) ==
    LET v == parseInt(value) IN IF v.nan \/ v.n = 0 THEN 3 ELSE v.n

\* What the user types into the slide-count control.
TypedValues ==
    {<<>>, <<"x">>, <<"0">>, <<"-", "0">>, <<"-", "1">>, <<"1">>, <<"2">>,
     <<"2", "x">>, <<"4">>, <<"1", "1">>}

Max(a, b) == IF a > b THEN a ELSE b

CanTakeEvent == rsi.pc \in {"idle", "rendered"}

\* renderSlideInputs() up to its first loop test (ui.js 268)
EnterRenderSlideInputs(value) ==
    [value |-> value, count |-> CountOf(value), pc |-> "push",
     before |-> currentSlideData, iterations |-> 0]

\* change on the slide-count control (ui.js 166)
SlideCountChange(value) ==
    /\ CanTakeEvent
    /\ rsi' = EnterRenderSlideInputs(value)
    /\ controls' = [controls EXCEPT !.slideCount = CountOf(value)]
    /\ UNCHANGED <<currentSlideData, logoSettings, edits, state, calls,
                   wrapVars, geomVars, dt, car, ai>>

\* click on the - button (ui.js 164)
SlidesDecreaseClick ==
    /\ CanTakeEvent
    /\ LET v == parseInt(rsi.value)
       IN /\ ~v.nan
          /\ v.n > 1
          /\ rsi' = EnterRenderSlideInputs(NumberToString(v.n - 1))
          /\ controls' = [controls EXCEPT !.slideCount = CountOf(NumberToString(v.n - 1))]
    /\ UNCHANGED <<currentSlideData, logoSettings, edits, state, calls,
                   wrapVars, geomVars, dt, car, ai>>

\* click on the + button (ui.js 165)
SlidesIncreaseClick ==
    /\ CanTakeEvent
    /\ LET v == parseInt(rsi.value)
       IN /\ ~v.nan
          /\ v.n < 10
          /\ rsi' = EnterRenderSlideInputs(NumberToString(v.n + 1))
          /\ controls' = [controls EXCEPT !.slideCount = CountOf(NumberToString(v.n + 1))]
    /\ UNCHANGED <<currentSlideData, logoSettings, edits, state, calls,
                   wrapVars, geomVars, dt, car, ai>>

\* One more iteration counted; the history stops counting one past the
\* longer of the list found and the count.
Iterated(r) ==
    [r EXCEPT !.iterations =
        IF @ > Max(Len(r.before), r.count) THEN @ ELSE @ + 1]

\* One iteration of the first loop (ui.js 269)
PushSlide ==
    /\ rsi.pc = "push"
    /\ Len(currentSlideData) < rsi.count
    /\ currentSlideData' =
            Append(currentSlideData,
                   [text |-> <<>>, backgroundType |-> "color",
                    backgroundColor |-> controls.backgroundColor,
                    backgroundImage |-> JsNull])
    /\ rsi' = Iterated(rsi)
    /\ UNCHANGED <<logoSettings, controls, edits, state, calls, wrapVars,
                   geomVars, dt, car, ai>>

\* The first loop's test fails (ui.js 269)
PushDone ==
    /\ rsi.pc = "push"
    /\ ~(Len(currentSlideData) < rsi.count)
    /\ rsi' = [rsi EXCEPT !.pc = "pop"]
    /\ UNCHANGED <<uiVars, state, calls, wrapVars, geomVars, dt, car, ai>>

\* Array.prototype.pop: an empty array stays empty.
pop(data) == IF data = <<>> THEN <<>> ELSE SubSeq(data, 1, Len(data) - 1)

\* One iteration of the second loop (ui.js 270)
PopSlide ==
    /\ rsi.pc = "pop"
    /\ Len(currentSlideData) > rsi.count
    /\ currentSlideData' = pop(currentSlideData)
    /\ rsi' = Iterated(rsi)
    /\ UNCHANGED <<logoSettings, controls, edits, state, calls, wrapVars,
                   geomVars, dt, car, ai>>

\* The second loop's test fails and the cards are rendered (ui.js 270-271)
PopDone ==
    /\ rsi.pc = "pop"
    /\ ~(Len(currentSlideData) > rsi.count)
    /\ rsi' = [rsi EXCEPT !.pc = "rendered"]
    /\ UNCHANGED <<uiVars, state, calls, wrapVars, geomVars, dt, car, ai>>

\* The editor with 1..MaxSlides slides, edited or not, and the control
\* showing their number.
InitRsi ==
    /\ logoSettings = [enabled |-> FALSE, image |-> JsNull,
                       position |-> "bottom-left", size |-> 80]
    /\ edits = 0
    /\ currentSlideData \in
            SeqsUpTo({ImageSlide, [text |-> <<>>, backgroundType |-> "color",
                                   backgroundColor |-> "#211D58",
                                   backgroundImage |-> JsNull]}, MaxSlides)
                \ {<<>>}
    /\ controls = [DefaultGlobalSettings EXCEPT !.slideCount = Len(currentSlideData)]
    /\ rsi = RsiIdle(NumberToString(Len(currentSlideData)))
    /\ state = [generatedImages |-> <<>>, isGenerating |-> FALSE]
    /\ calls = [b \in 1..MaxRequests |-> IdleCall]
    /\ IdleWrap
    /\ IdleGeom
    /\ IdleDt
    /\ IdleCar
    /\ IdleAi

NextRsi ==
    \/ \E value \in TypedValues : SlideCountChange(value)
    \/ SlidesDecreaseClick
    \/ SlidesIncreaseClick
    \/ PushSlide
    \/ PushDone
    \/ PopSlide
    \/ PopDone

SpecRsi == InitRsi /\ [][NextRsi]_vars

-----------------------------------------------------------------------------
(* Specification of the generate button with its two handlers,             *)
(* handleGenerateCarousel (part_002 77-98) and the earlier handleGenerate  *)
(* (part_001 87-131, part_003 18-62), under fairness: an image that is    *)
(* loading ends with a load or an error event, and a settled promise       *)
(* resumes the function awaiting it.  Clicks are under no obligation.      *)

\* slidesData.some(slide => slide.text.trim() !== '')  (part_003 36)
hasContent(slidesData) == \E i \in DOMAIN slidesData : trim(slidesData[i].text) # <<>>

\* Click on the generate button of the earlier App: handleGenerate up to its
\* await or its early return (part_003 18-46).  declined says that the
\* confirm dialog was shown and answered with Cancel; the finally runs on
\* the early returns as well.  generateAllSlides is called without logo
\* settings.
HandleGenerate(b, ctx, declined) ==
    /\ calls[b].pc = "idle"
    /\ \A a \in 1..(b - 1) : calls[a].pc # "idle"
    /\ declined => ~hasContent(getSlidesData)
    /\ IF AlreadyGenerating
       THEN /\ calls' = [calls EXCEPT ![b].pc = "ignored"]
            /\ UNCHANGED state
       ELSE IF Len(getSlidesData) = 0 \/ declined
       THEN /\ state' = Finally([state EXCEPT !.isGenerating = TRUE], FALSE)
            /\ calls' = [calls EXCEPT ![b] = [IdleCall EXCEPT !.pc = "returnedEarly"]]
       ELSE /\ state' = [state EXCEPT !.isGenerating = TRUE]
            /\ calls' = [calls EXCEPT ![b] =
                   generateAllSlides(getSlidesData, getGlobalSettings,
                                     [null |-> TRUE], ctx)]
    /\ UNCHANGED <<uiVars, wrapVars, geomVars, extVars>>

BlankSlide ==
    [text |-> <<" ">>, backgroundType |-> "color",
     backgroundColor |-> "#211D58", backgroundImage |-> JsNull]

\* The slide lists the button is clicked with: none, one slide with an image
\* and a text, one slide with neither.
LiveLists == {<<>>, <<ImageSlide>>, <<BlankSlide>>}

InitLive ==
    /\ currentSlideData \in LiveLists
    /\ logoSettings = [enabled |-> TRUE, image |-> "logo1",
                       position |-> "top-right", size |-> 120]
    /\ controls = DefaultGlobalSettings
    /\ edits = 0
    /\ state = [generatedImages |-> <<>>, isGenerating |-> FALSE]
    /\ calls = [b \in 1..MaxRequests |-> IdleCall]
    /\ IdleWrap
    /\ IdleGeom
    /\ IdleExt

\* The steps the browser owes a generation that has started.
LiveProgress ==
    \/ \E b \in 1..MaxRequests, k \in 1..MaxSlides, ok \in BOOLEAN : BgLoadDone(b, k, ok)
    \/ \E b \in 1..MaxRequests, k \in 1..MaxSlides, ok \in BOOLEAN : LogoLoadDone(b, k, ok)
    \/ \E b \in 1..MaxRequests, ctx \in CtxValues : ResumeBatch(b, ctx)
    \/ \E b \in 1..MaxRequests : HandlerResume(b)

NextLive ==
    \/ \E b \in 1..MaxRequests, ctx \in CtxValues : HandleGenerateCarousel(b, ctx)
    \/ \E b \in 1..MaxRequests, ctx \in CtxValues, declined \in BOOLEAN :
           HandleGenerate(b, ctx, declined)
    \/ LiveProgress

SpecLive == InitLive /\ [][NextLive]_vars /\ WF_vars(LiveProgress)

-----------------------------------------------------------------------------
(* Properties *)

\* Every generateSlide frame alive in some call, with its call and position.
Frames ==
    UNION { { [b |-> b, k |-> k, r |-> calls[b].renders[k]] :
                k \in DOMAIN calls[b].renders } : b \in 1..MaxRequests }

\* img shows slide as generateSlide is specified to paint it: the slide's
\* text (if not blank), its image under the scrim or a plain colour of its
\* own, at most the configured logo, and the PNG encoding last.
IsRenderOf(img, slide, settings, logo) ==
    /\ img.ops # <<>>
    /\ img.ops[Len(img.ops)] = "encode"
    /\ img.lines = IF trim(slide.text) # <<>> THEN TextLines(slide.text, settings)
                   ELSE <<>>
    /\ \/ img.bg = slide.backgroundColor /\ ~img.scrim /\ img.bgImage = JsNull
       \/ /\ slide.backgroundType = "image"
          /\ slide.backgroundImage # JsNull
          /\ img.bg = "image"
          /\ img.bgImage = slide.backgroundImage
          /\ img.scrim
    /\ \/ img.logo = <<>>
       \/ logo.enabled /\ logo.image # JsNull /\ Len(img.logo) = 1

\* C1: when generateAllSlides returns, it returns exactly one image per
\* input slide, and the image at position i is the render of the slide at
\* position i, whether or not background or logo loads failed on the way.
C1_OneImagePerSlideInOrder ==
    \A b \in 1..MaxRequests :
        calls[b].pc = "returned" =>
            /\ Len(calls[b].images) = Len(calls[b].slides)
            /\ \A i \in 1..Len(calls[b].slides) :
                   IsRenderOf(calls[b].images[i], calls[b].slides[i],
                              calls[b].settings, calls[b].logo)

C1_Witness ==
    \E b \in 1..MaxRequests :
        /\ calls[b].pc = "returned"
        /\ Len(calls[b].slides) >= 2
        /\ Len(calls[b].images) = Len(calls[b].slides)
        /\ \E k \in DOMAIN calls[b].renders : calls[b].renders[k].bgLoad = "failed"
        /\ \E k \in DOMAIN calls[b].renders : calls[b].renders[k].logoLoad = "failed"

NoSpace(text) == \A i \in 1..Len(text) : text[i] # " "

\* C3: getWrappedLines returns at least one line for every text and
\* maxWidth, and for the empty text exactly one line, the empty string.
C3_WrapNeverEmpty ==
    wDone => /\ Len(wLines) >= 1
             /\ (wText = <<>> => wLines = << <<>> >>)

C3_Witness == wDone /\ wText = <<>> /\ wLines = << <<>> >>

\* C4: a text that is one word wider than maxWidth comes back as exactly
\* one line equal to that word.
C4_WideSingleWordKeptWhole ==
    (wDone /\ wText # <<>> /\ NoSpace(wText)
           /\ measureText(WrapCtx, wText) > wMaxWidth)
        => wLines = <<wText>>

C4_Witness ==
    wDone /\ wText = <<"W", "a">> /\ wMaxWidth = 3 /\ wLines = <<wText>>

\* The words of text, empty ones dropped, joined by single spaces.
RECURSIVE JoinWords(_)
JoinWords(words) ==
    IF words = <<>> THEN <<>>
    ELSE IF Head(words) = <<>> THEN JoinWords(Tail(words))
    ELSE LET rest == JoinWords(Tail(words))
         IN IF rest = <<>> THEN Head(words) ELSE Head(words) \o <<" ">> \o rest

SpaceNormalized(text) == JoinWords(split(text))

\* C5 as stated: when maxWidth is at least the measured width of the whole
\* text, getWrappedLines returns one line equal to the space-normalized
\* text, also for texts with leading, trailing or repeated spaces.
C5_Original ==
    (wDone /\ measureText(WrapCtx, wText) <= wMaxWidth)
        => wLines = <<SpaceNormalized(wText)>>

\* C5 amended: when maxWidth is at least the measured width of the whole
\* text, getWrappedLines returns one line equal to the text without its
\* leading spaces; trailing and repeated inner spaces are kept, so the line
\* is the space-normalized text when the text has neither.
C5_FittingTextIsOneLine ==
    (wDone /\ measureText(WrapCtx, wText) <= wMaxWidth)
        => /\ wLines = <<TrimLeft(wText)>>
           /\ (TrimLeft(wText) = SpaceNormalized(wText)
                   => wLines = <<SpaceNormalized(wText)>>)

C5_Witness ==
    /\ wDone
    /\ wText = <<" ", "a", " ", "a">>
    /\ wMaxWidth = measureText(WrapCtx, wText)
    /\ wLines = << <<"a", " ", "a">> >>

\* C6: for each of the four corners, the two edges of the drawn logo
\* rectangle nearest the corner are exactly 40 px from the canvas edges.
C6_LogoCornerMargins ==
    gLogoRect # <<>> =>
        LET r == gLogoRect[1]
            position == Get(gOptions, "position", "bottom-left")
            left == r.x = 40 * r.den
            top == r.y = 40 * r.den
            right == r.x + r.w = (1080 - 40) * r.den
            bottom == r.y + r.h = (1350 - 40) * r.den
        IN /\ position = "top-left" => left /\ top
           /\ position = "top-right" => right /\ top
           /\ position = "bottom-left" => left /\ bottom
           /\ position = "bottom-right" => right /\ bottom

C6_Witness ==
    /\ gLogoRect # <<>>
    /\ gOptions = [position |-> "bottom-right", size |-> 80]
    /\ gImg = [width |-> 2, height |-> 3]
    /\ gLogoRect[1].x + gLogoRect[1].w = 1040 * gLogoRect[1].den
    /\ gLogoRect[1].w < gLogoRect[1].h

\* C7: a generateSlide call whose logo image failed to load has returned
\* its image, with the background painted, the text drawn when the slide
\* has any, and no logo; and a batch is never aborted at such a slide.
C7_LogoLoadFailureIsNotFatal ==
    \A f \in Frames :
        f.r.logoLoad = "failed" =>
            /\ f.r.pc = "returned"
            /\ f.r.canvas.logo = <<>>
            /\ f.r.canvas.bg # "none"
            /\ (trim(f.r.slideData.text) # <<>>) = (f.r.canvas.lines # <<>>)
            /\ (calls[f.b].pc = "threw" => f.k < Len(calls[f.b].renders))

C7_Witness ==
    \E f \in Frames :
        /\ f.r.logoLoad = "failed"
        /\ f.r.canvas.lines # <<>>
        /\ f.k < Len(calls[f.b].renders)

\* C8: for a background image of positive size the drawn rectangle covers
\* the whole canvas, has the image's aspect ratio and is centred.
C8_BackgroundCoversCanvas ==
    gBgRect # <<>> =>
        LET r == gBgRect[1]
        IN /\ r.x <= 0
           /\ r.y <= 0
           /\ r.x + r.w >= 1080 * r.den
           /\ r.y + r.h >= 1350 * r.den
           /\ r.w * gImg.height = r.h * gImg.width
           /\ r.x + (r.x + r.w) = 1080 * r.den
           /\ r.y + (r.y + r.h) = 1350 * r.den

C8_Witness ==
    /\ gBgRect # <<>>
    /\ gImg = [width |-> 5, height |-> 2]
    /\ gBgRect[1].x < 0
    /\ gBgRect[1].h = 1350 * gBgRect[1].den

\* C9: within one batch a slide's render is started only when the renders
\* of all earlier slides have returned.
C9_SlidesRenderedOneAtATime ==
    \A f \in Frames :
        f.k < Len(calls[f.b].renders) => f.r.pc = "returned"

C9_Witness ==
    \E f \in Frames :
        /\ f.k = 2
        /\ f.r.pc \in InFlightPc
        /\ calls[f.b].renders[1].bgLoad # "none"
        /\ calls[f.b].renders[1].logoLoad # "none"

InFlight == {f \in Frames : f.r.pc \in InFlightPc}

\* C10: whatever generate requests the UI issues, at most one generateSlide
\* call is in flight at any time.
C10_AtMostOneRenderInFlight == Cardinality(InFlight) <= 1

C10_Witness ==
    /\ InFlight # {}
    /\ \E b \in 1..MaxRequests : calls[b].pc = "ignored"

\* The logo rectangle generateSlide is to draw for logo settings logo when
\* the logo image loaded.
LogoRectOf(logo) ==
    drawLogo(DecodedImage(logo.image), [position |-> logo.position, size |-> logo.size])

\* C11: a batch works on the slide list, the global settings and the logo
\* settings it read when it started.  As long as no edit was made they are
\* the editor's values; every generateSlide call of the batch, the ones
\* started after an edit included, gets these values, and every image of
\* the batch is the render of them (text lines, alignment, background and
\* logo rectangle), whatever the editor holds by then.
C11_BatchUsesStartValues ==
    \A b \in 1..MaxRequests :
        LET c == calls[b]
        IN c.pc \in {"rendering", "returned"} =>
            /\ edits = 0 => /\ c.slides = getSlidesData
                            /\ c.settings = getGlobalSettings
                            /\ c.logo = getLogoSettings
            /\ \A k \in DOMAIN c.renders :
                 LET r == c.renders[k]
                 IN /\ r.slideData = c.slides[k]
                    /\ r.globalSettings = c.settings
                    /\ r.logoSettings = c.logo
                    /\ r.pc = "returned" =>
                         /\ IsRenderOf(r.canvas, c.slides[k], c.settings, c.logo)
                         /\ r.canvas.lines # <<>> =>
                                r.canvas.textX = TextX(c.settings.textAlign)
                         /\ r.canvas.logo =
                                IF c.logo.enabled /\ c.logo.image # JsNull
                                   /\ r.logoLoad = "ok"
                                THEN <<LogoRectOf(c.logo)>> ELSE <<>>
            /\ \A i \in 1..Len(c.images) : c.images[i] = c.renders[i].canvas

\* A batch of two slides has returned its images, and the logo settings in
\* the editor are no longer the ones the batch started with.
C11_Witness ==
    /\ calls[1].pc = "returned"
    /\ Len(calls[1].images) = 2
    /\ edits > 0
    /\ calls[1].logo # getLogoSettings
    /\ calls[1].images[2].logo # <<>>

\* C12: when the render of slide k throws (here: no 2d context, an error
\* that no catch of generateSlide handles), no slide after k is rendered,
\* generateAllSlides does not return images, and the error it fails with is
\* the very error generateSlide threw.
C12_RenderErrorPropagates ==
    \A b \in 1..MaxRequests :
        LET c == calls[b]
        IN /\ \A k \in DOMAIN c.renders :
                c.renders[k].pc = "threw" =>
                    /\ k = Len(c.renders)
                    /\ c.renders[k].error # JsNull
                    /\ c.pc \in {"rendering", "threw"}
                    /\ c.pc = "threw" => c.error = c.renders[k].error
           /\ c.pc = "threw" =>
                /\ c.renders # <<>>
                /\ c.renders[Len(c.renders)].pc = "threw"
                /\ Len(c.images) = Len(c.renders) - 1

\* generateAllSlides has failed on the first of two slides.
C12_Witness ==
    \E b \in 1..MaxRequests :
        /\ calls[b].pc = "threw"
        /\ Len(calls[b].slides) = 2
        /\ Len(calls[b].renders) = 1
        /\ calls[b].error = "TypeError"

\* The stages of generateSlide in the order of the source; the scrim is
\* the last step of painting an image background.
StageRank(op) ==
    CASE op = "bg" -> 1
      [] op = "scrim" -> 2
      [] op = "text" -> 3
      [] op = "logo" -> 4
      [] op = "encode" -> 5

\* C13: in every generateSlide call the drawing steps come in the order
\* background, text, logo, PNG encoding, each at most once: nothing is
\* drawn while the background image is still loading, the first step is
\* the background, the encoding has not happened while the logo is loading
\* and is the last step of a call that returned; the text step happens
\* exactly when the text is not blank.
C13_StagesInOrder ==
    \A f \in Frames :
        LET ops == f.r.canvas.ops
            n == Len(ops)
        IN /\ \A i, j \in 1..n : i < j => StageRank(ops[i]) < StageRank(ops[j])
           /\ n > 0 => ops[1] = "bg"
           /\ f.r.pc = "bgload" => n = 0
           /\ f.r.pc = "logoload" => n > 0 /\ ops[n] # "encode"
           /\ f.r.pc = "returned" =>
                /\ ops[n] = "encode"
                /\ (\E i \in 1..n : ops[i] = "text")
                       <=> trim(Get(f.r.slideData, "text", <<>>)) # <<>>
           /\ (\E i \in 1..n : ops[i] = "encode") => f.r.pc = "returned"

\* A call that painted an image background with its scrim, drew the text
\* and the logo and returned the encoding.
C13_Witness ==
    \E f \in Frames :
        /\ f.r.pc = "returned"
        /\ f.r.canvas.ops = <<"bg", "scrim", "text", "logo", "encode">>

\* C14: the black 0.3-alpha scrim is on the canvas exactly when the
\* background image loaded and was drawn: a canvas with the image has the
\* scrim, and a canvas painted with a colour, because the slide asked for
\* one or because the load failed, has none.
C14_ScrimIffImageDrawn ==
    \A f \in Frames :
        LET cv == f.r.canvas
            drawn == f.r.bgLoad = "ok" /\ f.r.ctx # JsNull
        IN /\ cv.scrim <=> drawn
           /\ cv.scrim <=> (cv.bg = "image" /\ cv.bgRect # <<>>)
           /\ cv.scrim <=> \E i \in 1..Len(cv.ops) : cv.ops[i] = "scrim"
           /\ f.r.bgLoad \in {"none", "failed"} /\ cv.bg # "none" =>
                  /\ ~cv.scrim
                  /\ cv.bg = Get(f.r.slideData, "backgroundColor", "#211D58")

\* One call returned an image background under the scrim.
C14_Witness ==
    \E f \in Frames :
        /\ f.r.pc = "returned"
        /\ f.r.bgLoad = "ok"
        /\ f.r.canvas.scrim
        /\ f.r.canvas.bg = "image"

\* C15: whenever the logo is drawn, the shadow colour of the context is
\* transparent, whether the text was drawn before it (under its half
\* opaque black shadow) or not.
C15_LogoDrawnWithoutShadow ==
    \A f \in Frames :
        LET cv == f.r.canvas
        IN /\ cv.logo # <<>> => cv.logoShadow = Transparent
           /\ cv.lines # <<>> => cv.textShadow = "rgba(0, 0, 0, 0.5)"

\* A call drew its text and then its logo.
C15_Witness ==
    \E f \in Frames :
        /\ f.r.canvas.lines # <<>>
        /\ f.r.canvas.logo # <<>>
        /\ f.r.canvas.logoShadow = Transparent

\* C16: for every logo image of positive width and height and every size,
\* the rectangle drawLogo draws has the image's aspect ratio, its longer
\* side (the width when width >= height, the height otherwise) equals
\* size, and its other side is not larger than size.
C16_LogoFitsSizeKeepingAspect ==
    gLogoRect # <<>> =>
        LET r == gLogoRect[1]
            size == Get(gOptions, "size", 80)
        IN /\ r.den > 0
           /\ r.w * gImg.height = r.h * gImg.width
           /\ IF gImg.width >= gImg.height
              THEN r.w = size * r.den /\ r.h <= size * r.den
              ELSE r.h = size * r.den /\ r.w <= size * r.den

\* A portrait logo was drawn: its height is size, its width smaller.
C16_Witness ==
    /\ gLogoRect # <<>>
    /\ gImg.width < gImg.height
    /\ gLogoRect[1].h = Get(gOptions, "size", 80) * gLogoRect[1].den
    /\ gLogoRect[1].w < gLogoRect[1].h

\* C17: for a position that is none of the four corners, a missing one
\* included, drawLogo draws (it does not throw) and the rectangle is the
\* bottom-left one: its left edge LOGO_PADDING from the canvas's left edge,
\* its bottom edge LOGO_PADDING above the canvas's bottom edge.
C17_UnknownPositionIsBottomLeft ==
    /\ gLogoRect # <<>> /\ ("position" \notin DOMAIN gOptions
                            \/ gOptions.position \notin Positions) =>
        LET r == gLogoRect[1]
        IN /\ r.x = LOGO_PADDING * r.den
           /\ r.y + r.h = (CANVAS_HEIGHT - LOGO_PADDING) * r.den
           /\ r = drawLogo(gImg, [position |-> "bottom-left",
                                  size |-> Get(gOptions, "size", 80)])
    /\ gLogoRect # <<>> => Len(gLogoRect) = 1 /\ gLogoRect[1].w > 0 /\ gLogoRect[1].h > 0

\* drawLogo was called with the position "center".
C17_Witness ==
    /\ gLogoRect # <<>>
    /\ "position" \in DOMAIN gOptions
    /\ gOptions.position = "center"
    /\ gLogoRect[1].x = LOGO_PADDING * gLogoRect[1].den

\* The non-empty space-separated words of a string, in order.
NonEmptyWords(str) == SelectSeq(split(str), LAMBDA w : w # <<>>)

\* C18: every returned line that is wider than maxWidth has no space in
\* it, so it holds one word at most, and exactly one for a maxWidth that is
\* not negative; a line of two or more words is never wider than maxWidth.
C18_OverflowingLineIsOneWord ==
    wDone =>
        \A j \in 1..Len(wLines) :
            LET line == wLines[j]
                wide == measureText(WrapCtx, line) > wMaxWidth
            IN /\ wide => NoSpace(line)
               /\ wide /\ wMaxWidth >= 0 => Len(NonEmptyWords(line)) = 1
               /\ Len(NonEmptyWords(line)) >= 2 => ~wide

\* The text was wrapped into two lines or more, one of them a single word
\* wider than a positive maxWidth.
C18_Witness ==
    /\ wDone
    /\ wMaxWidth > 0
    /\ Len(wLines) >= 2
    /\ \E j \in 1..Len(wLines) : /\ measureText(WrapCtx, wLines[j]) > wMaxWidth
                                  /\ Len(NonEmptyWords(wLines[j])) = 1

\* C19: the breaks are greedy: for two consecutive returned lines, the
\* earlier one followed by a space and the first word of the later one is
\* wider than maxWidth.
C19_BreaksAreGreedy ==
    wDone =>
        \A j \in 1..(Len(wLines) - 1) :
            /\ wLines[j + 1] # <<>>
            /\ wLines[j + 1][1] # " "
            /\ measureText(WrapCtx, wLines[j] \o <<" ">> \o split(wLines[j + 1])[1])
                   > wMaxWidth

\* A break after a line that fits: the next word would not have fitted.
C19_Witness ==
    /\ wDone
    /\ Len(wLines) >= 2
    /\ measureText(WrapCtx, wLines[1]) <= wMaxWidth
    /\ measureText(WrapCtx, wLines[2]) <= wMaxWidth

RECURSIVE WordsOfLines(_)
WordsOfLines(lines) ==
    IF lines = <<>> THEN <<>>
    ELSE NonEmptyWords(Head(lines)) \o WordsOfLines(Tail(lines))

\* C20: the non-empty words read across the returned lines, in order, are
\* the non-empty space-separated words of the text, in order: none lost,
\* none repeated, none moved.
C20_WordsPreserved ==
    wDone => WordsOfLines(wLines) = NonEmptyWords(wText)

\* A text with a doubled space was wrapped into two lines.
C20_Witness ==
    /\ wDone
    /\ Len(wLines) >= 2
    /\ Len(split(wText)) > Len(NonEmptyWords(wText))
    /\ Len(NonEmptyWords(wText)) >= 2

\* C21: for every font size f and every number n >= 1 of wrapped lines,
\* drawText draws line i (counted from 0) at
\* y = (1350 - n * 1.3f) / 2 + 1.3f / 2 + i * 1.3f, and the block is centred:
\* the first and the last y are symmetric about 675.  The ys are numerators
\* over 20.
C21_TextBlockCentred ==
    dt.drawn # <<>> =>
        LET n == Len(dt.drawn[1].lines)
            ys == dt.drawn[1].ys
            f == dt.fontSize
        IN /\ n >= 1
           /\ Len(ys) = n
           /\ \A i \in 0..(n - 1) :
                  ys[i + 1] = 13500 - 13 * n * f + 13 * f + 26 * i * f
           /\ ys[1] + ys[n] = 2 * 675 * 20
           /\ \A i \in 1..(n - 1) : ys[i + 1] - ys[i] = 26 * f

\* A text was drawn on two lines, one above and one below the middle.
C21_Witness ==
    /\ dt.drawn # <<>>
    /\ Len(dt.drawn[1].ys) = 2
    /\ dt.drawn[1].ys[1] < 675 * 20
    /\ dt.drawn[1].ys[2] > 675 * 20

\* C22: after any sequence of carousel operations the current index is not
\* negative, is below totalSlides when there are slides, and is 0 when
\* there are none.
C22_IndexInRange ==
    /\ car.state.currentIndex >= 0
    /\ car.state.totalSlides > 0 => car.state.currentIndex < car.state.totalSlides
    /\ car.state.totalSlides = 0 => car.state.currentIndex = 0

\* The carousel stands on its last slide after a swipe to the left.
C22_Witness ==
    /\ car.state.totalSlides = MaxTotal
    /\ car.state.currentIndex = car.state.totalSlides - 1
    /\ car.hist.ended
    /\ car.hist.to = car.hist.from + 1

\* C23: a gesture that ends changes the index only when the pointer was seen
\* to travel more than 50 px; a tap (start and end with no move event, so no
\* travel) leaves the index unchanged.
C23_TapLeavesIndex ==
    (car.hist.ended /\ car.hist.to # car.hist.from) =>
        Abs(car.hist.travel) > threshold

\* C24: whenever no drag is in progress the track sits at
\* -currentIndex * 100%, with no pixel offset left from a drag.
C24_TrackAtIndexWhenIdle ==
    ~car.touch.isDragging =>
        car.track = [index |-> car.state.currentIndex, px |-> 0]

\* C25: isAnimating is true as long as a 400 ms timeout started by
\* updatePosition(true) is pending, under every interleaving of gestures,
\* navigation calls and timer expiries (reset() aside).
C25_AnimatingWhileTimerPending ==
    (car.timers > 0 /\ ~car.cleared) => car.state.isAnimating

\* C26: the options shown in the open picker and the image applied to a
\* slide were generated for that same slide, and a failed request for one
\* slide never hides the picker opened for another slide.
C26_PickerServesItsSlide ==
    /\ (~ai.modal.hidden /\ ai.modal.options # NoResult) =>
            ai.modal.options.slideIndex = ai.modal.slideIndex
    /\ \A i \in AiSlides :
            ai.backgroundImage[i] # -1 => ai.backgroundImage[i] = i
    /\ ai.hist.hidden.wasOpen => ai.hist.hidden.by = ai.hist.hidden.picker

\* C27: at most one text request is in flight; isGeneratingText is true
\* exactly while one is, so it is false again once the call has ended and a
\* refused call does not clear it; a call made while one is in flight fails
\* with 'Text generation already in progress.' and sends nothing.
C27_OneTextRequestInFlight ==
    /\ Len(ai.textCalls) <= 1
    /\ ai.state.isGeneratingText <=> ai.textCalls # <<>>
    /\ ai.hist.textCall.inFlight > 0 =>
            /\ ai.hist.textCall.error = ErrTextBusy
            /\ ~ai.hist.textCall.sent

\* A call was just refused while a request is in flight, and the flag is
\* still set.
C27_Witness ==
    /\ ai.hist.textCall.error = ErrTextBusy
    /\ ai.hist.last.error = ErrTextBusy
    /\ Len(ai.textCalls) = 1
    /\ ai.textCalls[1].pc = "json"
    /\ ai.state.isGeneratingText

\* C30: a call that just ended without a valid response (status ok and an array
\* of exactly 3 options / images) failed and left generatedTextOptions and
\* generatedImages as they were; an image call that returned changed only
\* the entry of its slide index.
C30_StoreOnlyValidResponses ==
    LET l == ai.hist.last
    IN /\ (l.fn # "none" /\ ~l.valid) =>
            /\ l.error # ""
            /\ ai.state.generatedTextOptions = l.textBefore
            /\ ai.state.generatedImages = l.imagesBefore
       /\ (l.fn = "image" /\ l.error = "") =>
            /\ ai.state.generatedTextOptions = l.textBefore
            /\ \A i \in AiSlides \ {l.slideIndex} :
                    ai.state.generatedImages[i] = l.imagesBefore[i]

\* C28: renderSlideInputs terminates with exactly the requested number of
\* slides, keeping the content below the new count: a call that has rendered
\* left count slides, the first of them as the call found them, and the
\* loops never make more iterations than the longer of the list found and
\* the count (one more means a pop of the empty list, which repeats for ever).
C28_RenderSlideInputsTerminates ==
    /\ rsi.pc = "rendered" =>
            /\ Len(currentSlideData) = rsi.count
            /\ \A i \in 1..Len(currentSlideData) :
                    i <= Len(rsi.before) => currentSlideData[i] = rsi.before[i]
    /\ rsi.iterations <= Max(Len(rsi.before), rsi.count)

\* C29: isGenerating is true exactly while a generation is in progress; a
\* generate request made while it is true is ignored and changes nothing; an
\* attempt that failed or returned early leaves the generated images in
\* place; and every generation that starts leads to isGenerating being false
\* again.
C29_IsGeneratingTracksGeneration ==
    /\ [](state.isGenerating <=>
            \E b \in 1..MaxRequests : calls[b].pc \in {"rendering", "returned", "threw"})
    /\ [][\A b \in 1..MaxRequests :
            (state.isGenerating /\ calls[b].pc = "idle" /\ calls'[b].pc # "idle") =>
                (calls'[b].pc = "ignored" /\ state' = state)]_vars
    /\ [][\A b \in 1..MaxRequests :
            (calls'[b].pc \in {"failed", "returnedEarly"} /\ calls[b].pc # calls'[b].pc) =>
                state'.generatedImages = state.generatedImages]_vars
    /\ state.isGenerating ~> ~state.isGenerating

\* A batch threw after an earlier one had stored its images: the flag is
\* false again and the images are still there.
C29_Witness ==
    /\ ~state.isGenerating
    /\ state.generatedImages # <<>>
    /\ \E b \in 1..MaxRequests : calls[b].pc = "failed"

====
